---- MODULE Spec2Model ----
(***************************************************************************)
(* A model of ziplinter's sans-I/O ZIP parsing engine: ArchiveFsm          *)
(* (rc-zip/src/fsm/archive.rs), ParsedRanges (fsm/parsed_ranges.rs) and    *)
(* EntryFsm (fsm/entry/mod.rs).  Files are sequences of bytes laid out as  *)
(* APPNOTE records; the drivers fill the machines' buffers in chunks.      *)
(***************************************************************************)
EXTENDS Integers, Sequences, FiniteSets, TLC

VARIABLES
    fp,     \* how the file was generated (names, prefix, tail, record count)
    file,   \* the bytes of the zip file the archive driver reads
    a,      \* the ArchiveFsm (its fields, and the outcome of the last process())
    apc,    \* the archive driver's position in its loop: "fill" | "process" | "end"
    ent,    \* the Entry an EntryFsm run is about
    payload,\* the bytes the entry driver supplies (from entry.header_offset on)
    e,      \* the EntryFsm
    io,     \* the entry driver: bytes read from the reader, bytes handed out
    epc,    \* the entry driver's position in its loop
    cnt,    \* a record count check: headers read, records announced, verdict
    journal,\* a ParsedRanges journal and the insert last made on it
    lint,   \* the linter: the entries walked so far and its output
    det     \* an encoding detection: headers, the detector's guess, the outcome

vars == <<fp, file, a, apc, ent, payload, e, io, epc, cnt, journal, lint, det>>
avars == <<fp, file, a, apc>>
evars == <<ent, payload, e, io, epc>>

----------------------------------------------------------------------------
(* Bounds of the model *)

\* largest number of central directory headers in a generated file
MaxHeaders == 3
\* the small and the middle fill size a driver may answer wants_read() with
SmallFill == 1
MidFill == 47

----------------------------------------------------------------------------
(* Bytes *)

Min(x, y) == IF x <= y THEN x ELSE y

\* the half-open slice s[from, to) with 0-based offsets
Slice(s, from, to) == SubSeq(s, from + 1, to)

RECURSIVE Zeros(_)
Zeros(n) == IF n <= 0 THEN <<>> ELSE <<0>> \o Zeros(n - 1)

\* little-endian encoding of v on w bytes
RECURSIVE LE(_, _)
LE(v, w) == IF w = 0 THEN <<>> ELSE <<v % 256>> \o LE(v \div 256, w - 1)

\* little-endian decoding of the w bytes at 0-based offset o of d
RECURSIVE UInt(_, _, _)
UInt(d, o, w) == IF w = 0 THEN 0 ELSE d[o + 1] + 256 * UInt(d, o + 1, w - 1)

\* winnow's literal on a Partial input: the tag at offset o of d
TagAt(d, o, tag) ==
    LET have == Min(Len(d) - o, Len(tag)) IN
    IF \E i \in 1..have : d[o + i] # tag[i] THEN "Backtrack"
    ELSE IF have < Len(tag) THEN "Incomplete"
    ELSE "Ok"

----------------------------------------------------------------------------
(* Record layouts (APPNOTE 6.3) and their parsers *)

EOCD_SIGNATURE == <<80, 75, 5, 6>>
EOCD64_LOCATOR_SIGNATURE == <<80, 75, 6, 7>>
EOCD64_SIGNATURE == <<80, 75, 6, 6>>
CDH_SIGNATURE == <<80, 75, 1, 2>>

\* fixed part of the end of central directory record, comment excluded
EOCD_FIXED_LENGTH == 22
\* EndOfCentralDirectory64Locator::LENGTH
EOCD64_LOCATOR_LENGTH == 20
\* fixed part of the zip64 end of central directory record
EOCD64_FIXED_LENGTH == 56
\* fixed part of a central directory file header
CDH_FIXED_LENGTH == 46

None == [some |-> FALSE, v |-> <<>>]
Some(x) == [some |-> TRUE, v |-> x]

NoEocdr == [offset |-> 0,
            inner |-> [directory_records |-> 0, directory_size |-> 0,
                       directory_offset |-> 0, comment |-> <<>>]]
NoEocdr64 == [some |-> FALSE, offset |-> 0,
              inner |-> [directory_records |-> 0, directory_size |-> 0,
                         directory_offset |-> 0]]

\* EndOfCentralDirectoryRecord::parser at offset i of block b, accepted only
\* when the declared comment reaches exactly the end of the block
EocdrMatchesAt(b, i) ==
    /\ i + EOCD_FIXED_LENGTH <= Len(b)
    /\ TagAt(b, i, EOCD_SIGNATURE) = "Ok"
    /\ UInt(b, i + 20, 2) = Len(b) - i - EOCD_FIXED_LENGTH

EocdrAt(b, i) ==
    [offset |-> i,
     inner |-> [directory_records |-> UInt(b, i + 10, 2),
                directory_size |-> UInt(b, i + 12, 4),
                directory_offset |-> UInt(b, i + 16, 4),
                comment |-> Slice(b, i + EOCD_FIXED_LENGTH, Len(b))]]

\* EndOfCentralDirectoryRecord::find_in_block: scan from the end of the block
\* towards its beginning, the first record that parses is the result
FindInBlock(b) ==
    LET cands == {i \in 0..(Len(b) - EOCD_FIXED_LENGTH) : EocdrMatchesAt(b, i)} IN
    IF cands = {} THEN [found |-> FALSE, eocdr |-> NoEocdr]
    ELSE [found |-> TRUE,
          eocdr |-> EocdrAt(b, CHOOSE i \in cands : \A j \in cands : j <= i)]

\* EndOfCentralDirectoryRecord::len
EocdrLen(inner) == EOCD_FIXED_LENGTH + Len(inner.comment)

\* EndOfCentralDirectory64Locator::parser on a Partial input
ParseEocd64Locator(d) ==
    LET t == TagAt(d, 0, EOCD64_LOCATOR_SIGNATURE) IN
    IF t # "Ok" THEN [kind |-> t, directory_offset |-> 0]
    ELSE IF Len(d) < EOCD64_LOCATOR_LENGTH THEN [kind |-> "Incomplete", directory_offset |-> 0]
    ELSE [kind |-> "Ok", directory_offset |-> UInt(d, 8, 8)]

\* EndOfCentralDirectory64Record::parser on a Partial input
ParseEocd64Record(d) ==
    LET t == TagAt(d, 0, EOCD64_SIGNATURE) IN
    IF t # "Ok" THEN [kind |-> t, inner |-> NoEocdr64.inner]
    ELSE IF Len(d) < EOCD64_FIXED_LENGTH THEN [kind |-> "Incomplete", inner |-> NoEocdr64.inner]
    ELSE [kind |-> "Ok",
          inner |-> [directory_records |-> UInt(d, 32, 8),
                     directory_size |-> UInt(d, 40, 8),
                     directory_offset |-> UInt(d, 48, 8)]]

\* EndOfCentralDirectory64Record::len
Eocdr64Len(inner) == EOCD64_FIXED_LENGTH

NoHeader == [flags |-> 0, method |-> 0, crc32 |-> 0, compressed_size |-> 0,
             uncompressed_size |-> 0, header_offset |-> 0,
             name |-> <<>>, extra |-> <<>>, comment |-> <<>>]

\* CentralDirectoryFileHeader::parser on the Partial input d[o..]; len is the
\* number of bytes the parse consumed
ParseCentralDirectoryFileHeader(d, o) ==
    LET t == TagAt(d, o, CDH_SIGNATURE)
        avail == Len(d) - o
    IN
    IF t # "Ok" THEN [kind |-> t, len |-> 0, dh |-> NoHeader]
    ELSE IF avail < CDH_FIXED_LENGTH THEN [kind |-> "Incomplete", len |-> 0, dh |-> NoHeader]
    ELSE LET name_len == UInt(d, o + 28, 2)
             extra_len == UInt(d, o + 30, 2)
             comment_len == UInt(d, o + 32, 2)
             total == CDH_FIXED_LENGTH + name_len + extra_len + comment_len
             n0 == o + CDH_FIXED_LENGTH
         IN
         IF avail < total THEN [kind |-> "Incomplete", len |-> 0, dh |-> NoHeader]
         ELSE [kind |-> "Ok", len |-> total,
               dh |-> [flags |-> UInt(d, o + 8, 2),
                       method |-> UInt(d, o + 10, 2),
                       crc32 |-> UInt(d, o + 16, 4),
                       compressed_size |-> UInt(d, o + 20, 4),
                       uncompressed_size |-> UInt(d, o + 24, 4),
                       header_offset |-> UInt(d, o + 42, 4),
                       name |-> Slice(d, n0, n0 + name_len),
                       extra |-> Slice(d, n0 + name_len, n0 + name_len + extra_len),
                       comment |-> Slice(d, n0 + name_len + extra_len, o + total)]]

\* EndOfCentralDirectory::new: the union of the 32-bit record and the optional
\* zip64 record
EndOfCentralDirectoryNew(size, eocdr, eocdr64) ==
    [dir |-> eocdr, dir64 |-> eocdr64, global_offset |-> 0]

NoEocd == EndOfCentralDirectoryNew(0, NoEocdr, NoEocdr64)

\* EndOfCentralDirectory::directory_offset
DirectoryOffset(eocd) ==
    IF eocd.dir64.some THEN eocd.dir64.inner.directory_offset
    ELSE eocd.dir.inner.directory_offset

\* EndOfCentralDirectory::directory_records
DirectoryRecords(eocd) ==
    IF eocd.dir64.some THEN eocd.dir64.inner.directory_records
    ELSE eocd.dir.inner.directory_records

\* the AE-x extra field (header id 0x9901, 7 bytes of data: version, vendor
\* "AE", mode, original method) at the head of an extra-field block
AEX_EXTRA_ID == 39169
AEX_EXTRA_DATA_LENGTH == 7

AexFromExtra(extra) ==
    IF /\ Len(extra) >= 4 + AEX_EXTRA_DATA_LENGTH
       /\ UInt(extra, 0, 2) = AEX_EXTRA_ID
       /\ UInt(extra, 2, 2) = AEX_EXTRA_DATA_LENGTH
    THEN Some(UInt(extra, 8, 1))
    ELSE None

\* CentralDirectoryFileHeader::as_entry
AsEntry(dh, encoding, global_offset) ==
    [name |-> dh.name, comment |-> dh.comment, method |-> dh.method,
     crc32 |-> dh.crc32, compressed_size |-> dh.compressed_size,
     uncompressed_size |-> dh.uncompressed_size,
     header_offset |-> dh.header_offset + global_offset,
     aex |-> AexFromExtra(dh.extra)]

----------------------------------------------------------------------------
(* The files the archive driver is run on *)

\* the names central directory headers carry (of two different lengths)
Names == {<<97>>, <<98, 99, 100>>}

RECURSIVE SeqsUpTo(_, _)
SeqsUpTo(S, n) ==
    IF n = 0 THEN {<<>>}
    ELSE LET shorter == SeqsUpTo(S, n - 1) IN
         shorter \cup {Append(s, x) : s \in {t \in shorter : Len(t) = n - 1}, x \in S}

\* bytes standing for the local entries that precede the central directory
PrefixLen == 30
Filler(n) == [i \in 1..n |-> 32]

CdhBytes(name, hoff) ==
    CDH_SIGNATURE \o Zeros(24) \o LE(Len(name), 2) \o LE(0, 2) \o LE(0, 2)
        \o Zeros(8) \o LE(hoff, 4) \o name

RECURSIVE DirBytes(_, _)
DirBytes(names, k) ==
    IF k > Len(names) THEN <<>>
    ELSE CdhBytes(names[k], 10 * (k - 1)) \o DirBytes(names, k + 1)

EocdBytes(records, dsize, doff, comment) ==
    EOCD_SIGNATURE \o Zeros(4) \o LE(records, 2) \o LE(records, 2)
        \o LE(dsize, 4) \o LE(doff, 4) \o LE(Len(comment), 2) \o comment

Eocd64LocatorBytes(off) ==
    EOCD64_LOCATOR_SIGNATURE \o Zeros(4) \o LE(off, 8) \o LE(1, 4)

Eocd64Bytes(records, dsize, doff) ==
    EOCD64_SIGNATURE \o LE(44, 8) \o Zeros(4) \o Zeros(8)
        \o LE(records, 8) \o LE(records, 8) \o LE(dsize, 8) \o LE(doff, 8)

\* an archive comment that starts with the EOCD signature, then junk
ShortSigComment == EOCD_SIGNATURE \o <<33, 33>>
\* an archive comment holding a whole 22-byte EOCD look-alike whose comment
\* length field does not reach the end of the file, then junk
LongSigComment == EocdBytes(0, 0, 0, <<>>) \o <<33, 33, 33>>

Tails == {"plain", "shortsig", "longsig", "zip64", "zip64bad", "zip64far", "noeocd", "none"}
Deltas == {0, 1, 65536}

\* the file with the given header names, prefix length, tail and difference
\* between the announced and the actual number of records
BuildFile(names, pre, tail, delta) ==
    LET dir == DirBytes(names, 1)
        doff == pre
        dsize == Len(dir)
        announced == Len(names) + delta
        ann16 == announced % 65536
        body == Filler(pre) \o dir
    IN
    CASE tail = "plain" -> body \o EocdBytes(ann16, dsize, doff, <<>>)
      [] tail = "shortsig" -> body \o EocdBytes(ann16, dsize, doff, ShortSigComment)
      [] tail = "longsig" -> body \o EocdBytes(ann16, dsize, doff, LongSigComment)
      [] tail = "zip64" ->
            body \o Eocd64Bytes(announced, dsize, doff)
                 \o Eocd64LocatorBytes(doff + dsize)
                 \o EocdBytes(ann16, dsize, doff, <<>>)
      [] tail = "zip64bad" ->
            body \o Filler(EOCD64_FIXED_LENGTH)
                 \o Eocd64LocatorBytes(doff + dsize)
                 \o EocdBytes(ann16, dsize, doff, <<>>)
      [] tail = "zip64far" ->
            \* the locator names the end of the file as the place of the record
            body \o Eocd64Bytes(announced, dsize, doff)
                 \o Eocd64LocatorBytes(doff + dsize + EOCD64_FIXED_LENGTH
                                          + EOCD64_LOCATOR_LENGTH + EOCD_FIXED_LENGTH)
                 \o EocdBytes(ann16, dsize, doff, <<>>)
      [] tail = "none" -> body
      [] OTHER -> body \o Filler(3)

\* where the real EOCD record of BuildFile(names, pre, tail, delta) starts
RealEocdOffset(names, pre, tail) ==
    pre + Len(DirBytes(names, 1))
        + (IF tail \in {"zip64", "zip64bad", "zip64far"}
           THEN EOCD64_FIXED_LENGTH + EOCD64_LOCATOR_LENGTH ELSE 0)

\* the generated files: every sequence of names with a plain tail, and every
\* tail and record count for directories of at most one header
FileParams ==
    {p \in [names : SeqsUpTo(Names, MaxHeaders),
            pre : {0, EOCD64_LOCATOR_LENGTH - 1, EOCD64_LOCATOR_LENGTH, PrefixLen},
            tail : Tails, delta : Deltas] :
        /\ Len(p.names) <= 1 \/ (p.tail = "plain" /\ p.delta = 0)
        /\ p.pre \in {0, PrefixLen} \/ (p.names = <<>> /\ p.delta = 0)}

----------------------------------------------------------------------------
(* ParsedRanges (fsm/parsed_ranges.rs) *)

ParsedRangesNew == <<>>

InsertRangeDedup(pr, start, end, contains, filename) ==
    LET r == [start |-> start, end |-> end, contains |-> contains,
              filename |-> filename]
    IN IF \E i \in 1..Len(pr) : pr[i] = r THEN pr ELSE Append(pr, r)

InsertRange(pr, start, end, contains, filename) ==
    Append(pr, [start |-> start, end |-> end, contains |-> contains,
                filename |-> filename])

\* (mutant: the end of the range is its last byte, not the byte after it)
InsertOffsetLengthInclusive(pr, offset, length, contains, filename) ==
    InsertRange(pr, offset, offset + length - 1, contains, filename)

InsertLengthOffset(pr, offset, length, contains, filename) ==
    InsertRange(pr, length, length + offset, contains, filename)

InsertOffsetLength(pr, offset, length, contains, filename) ==
    InsertRange(pr, offset, offset + length, contains, filename)

----------------------------------------------------------------------------
(* Buffer: oval::Buffer and the read_bytes counter (fsm/archive.rs) *)

BufferWithCapacity(size) ==
    [capacity |-> size, position |-> 0, data |-> <<>>, read_bytes |-> 0]

BufAvailableData(b) == Len(b.data)
BufAvailableSpace(b) == b.capacity - (b.position + Len(b.data))
BufShift(b) == [b EXCEPT !.position = 0]
\* (mutant: reset empties the buffer and keeps the read_bytes counter)
BufResetKeepsCount(b) == [b EXCEPT !.position = 0, !.data = <<>>]
BufReset(b) == [b EXCEPT !.position = 0, !.data = <<>>, !.read_bytes = 0]

\* fill(count), the driver having written `bytes` to space(): the bytes
\* accepted are those that fit in the space
BufFillCount(b, bytes) == Min(Len(bytes), BufAvailableSpace(b))

BufFill(b, bytes) ==
    LET n == BufFillCount(b, bytes)
        b1 == [b EXCEPT !.data = b.data \o SubSeq(bytes, 1, n),
                        !.read_bytes = b.read_bytes + n]
    IN IF BufAvailableSpace(b1) < BufAvailableData(b1) + n THEN BufShift(b1) ELSE b1

\* (mutant: consume leaves the data where it is)
BufConsumeNothing(b, size) == b

BufConsumeOneShort(b, size) ==
    LET n == IF size > 0 THEN Min(size, BufAvailableData(b)) - 1 ELSE 0 IN
    [b EXCEPT !.position = b.position + n,
              !.data = SubSeq(b.data, n + 1, Len(b.data))]

BufConsume(b, size) ==
    LET n == Min(size, BufAvailableData(b))
        b1 == [b EXCEPT !.position = b.position + n,
                        !.data = SubSeq(b.data, n + 1, Len(b.data))]
    IN IF b1.position > b1.capacity \div 2 THEN BufShift(b1) ELSE b1

BufReadOffset(b, offset) == b.read_bytes + offset

\* space(): shift first when no space is left
BufSpace(b) == IF BufAvailableSpace(b) = 0 THEN BufShift(b) ELSE b

----------------------------------------------------------------------------
(* ArchiveFsm (fsm/archive.rs) *)

NoArchive == [eocd |-> NoEocd, directory_headers |-> <<>>, size |-> 0,
              comment |-> <<>>, entries |-> <<>>, encoding |-> "Utf8",
              parsed_ranges |-> <<>>]

NoError == [expected |-> 0, actual |-> 0]

ArchiveFsmNew(size) ==
    [size |-> size,
     state |-> "ReadEocd",
     haystack_size |-> size,
     eocdr |-> NoEocdr,
     eocdr64_offset |-> 0,
     eocd |-> NoEocd,
     directory_headers |-> <<>>,
     current_header_offset |-> 0,
     buffer |-> BufferWithCapacity(size),
     parsed_ranges |-> ParsedRangesNew,
     guess |-> "UTF_8",
     result |-> "Continue",
     error |-> NoError,
     archive |-> NoArchive]

WantsRead(m) ==
    CASE m.state = "ReadEocd" -> BufReadOffset(m.buffer, m.size - m.haystack_size)
      [] m.state = "ReadEocd64Locator" ->
            BufReadOffset(m.buffer, m.eocdr.offset - EOCD64_LOCATOR_LENGTH)
      [] m.state = "ReadEocd64" -> BufReadOffset(m.buffer, m.eocdr64_offset)
      [] m.state = "ReadCentralDirectory" ->
            BufReadOffset(m.buffer, DirectoryOffset(m.eocd))

\* the transition into ReadCentralDirectory, shared by three states
EnterReadCentralDirectory(m, eocdr64) ==
    LET eocd == EndOfCentralDirectoryNew(m.size, m.eocdr, eocdr64) IN
    [m EXCEPT !.state = "ReadCentralDirectory",
              !.eocd = eocd,
              !.directory_headers = <<>>,
              !.current_header_offset = DirectoryOffset(eocd)]

\* (mutant: the range covers the fixed part of the record only)
EocdRangeWithoutComment(pr, eocdr) ==
    InsertOffsetLength(pr, eocdr.offset, EOCD_FIXED_LENGTH,
                       "end of central directory record", None)

\* the range recorded for the EOCD record found at eocdr
EocdRange(pr, eocdr) ==
    InsertOffsetLength(pr, eocdr.offset, EocdrLen(eocdr.inner),
                       "end of central directory record", None)

\* (mutant: an EOCD record right at the locator's length has no room either)
NoRoomForLocatorInclusive(eocdr) == eocdr.offset <= EOCD64_LOCATOR_LENGTH

\* no room for an EOCD64 locator before the EOCD record
NoRoomForLocator(eocdr) == eocdr.offset < EOCD64_LOCATOR_LENGTH

\* (mutant: the scan does not wait for the whole haystack)
ProcessReadEocdEager(m) ==
    LET res == FindInBlock(m.buffer.data) IN
    IF ~res.found THEN [m EXCEPT !.result = "DirectoryEndSignatureNotFound"]
    ELSE [m EXCEPT !.buffer = BufReset(@),
                   !.eocdr = res.eocdr,
                   !.parsed_ranges = EocdRange(@, res.eocdr),
                   !.state = "ReadEocd64Locator",
                   !.result = "Continue"]

ProcessReadEocd(m) ==
    IF m.buffer.read_bytes < m.haystack_size THEN [m EXCEPT !.result = "Continue"]
    ELSE
    LET res == FindInBlock(Slice(m.buffer.data, 0, m.haystack_size)) IN
    IF ~res.found THEN [m EXCEPT !.result = "DirectoryEndSignatureNotFound"]
    ELSE
    LET eocdr == [res.eocdr EXCEPT !.offset = @ + (m.size - m.haystack_size)]
        m1 == [m EXCEPT !.buffer = BufReset(@),
                        !.eocdr = eocdr,
                        !.parsed_ranges = EocdRange(@, eocdr),
                        !.result = "Continue"]
    IN
    IF NoRoomForLocator(eocdr)
    THEN EnterReadCentralDirectory(m1, NoEocdr64)
    ELSE [m1 EXCEPT !.state = "ReadEocd64Locator"]

\* (mutant: without a locator the machine still goes on to the zip64 record)
LocatorAbsentStillProbes(m) ==
    [m EXCEPT !.buffer = BufReset(@),
              !.state = "ReadEocd64",
              !.eocdr64_offset = 0,
              !.result = "Continue"]

\* what the locator state does when the locator parse fails
LocatorAbsent(m) ==
    EnterReadCentralDirectory([m EXCEPT !.buffer = BufReset(@),
                                        !.result = "Continue"], NoEocdr64)

ProcessReadEocd64Locator(m) ==
    LET p == ParseEocd64Locator(m.buffer.data) IN
    CASE p.kind = "Incomplete" -> [m EXCEPT !.result = "Continue"]
      [] p.kind \in {"Backtrack", "Cut"} -> LocatorAbsent(m)
      [] OTHER ->
            [m EXCEPT !.buffer = BufReset(@),
                      !.parsed_ranges =
                          InsertOffsetLength(@, m.eocdr.offset - EOCD64_LOCATOR_LENGTH,
                                             EOCD64_LOCATOR_LENGTH,
                                             "zip64 end of central directory locator", None),
                      !.state = "ReadEocd64",
                      !.eocdr64_offset = p.directory_offset,
                      !.result = "Continue"]

\* (mutant: an invalid zip64 record falls back to the 32-bit record)
Eocd64FallsBack(m) == LocatorAbsent(m)

\* what the zip64 record state does when the record parse fails
Eocd64Invalid(m) == [m EXCEPT !.result = "Directory64EndRecordInvalid"]

ProcessReadEocd64(m) ==
    LET p == ParseEocd64Record(m.buffer.data) IN
    CASE p.kind = "Incomplete" -> [m EXCEPT !.result = "Continue"]
      [] p.kind \in {"Backtrack", "Cut"} -> Eocd64Invalid(m)
      [] OTHER ->
            EnterReadCentralDirectory(
                [m EXCEPT !.buffer = BufReset(@),
                          !.parsed_ranges =
                              InsertOffsetLength(@, m.eocdr64_offset, Eocdr64Len(p.inner),
                                                 "zip64 end of central directory record", None),
                          !.result = "Continue"],
                [some |-> TRUE, offset |-> m.eocdr64_offset, inner |-> p.inner])

\* the 16-bit comparison of the number of headers read with the announced one
\* (`as u16` on both sides): headers_len is directory_headers.len(), records is
\* eocd.directory_records()
ExpectedRecords(headers_len) == headers_len % 65536
\* (mutant: the announced count compared on its full width)
ActualRecordsWide(records) == records
ActualRecords(records) == records % 65536
\* (mutant: only a directory longer than announced is refused)
RecordCountOnlyExcess(headers_len, records) ==
    ExpectedRecords(headers_len) > ActualRecords(records)
RecordCountMismatch(headers_len, records) ==
    ExpectedRecords(headers_len) # ActualRecords(records)

\* CentralDirectoryFileHeader::is_non_utf8
IsNonUtf8(dh) ==
    /\ \E i \in 1..Len(dh.name \o dh.comment) : (dh.name \o dh.comment)[i] >= 128
    /\ (dh.flags \div 2048) % 2 = 0

MAX_FEED == 4096

\* the feed closure's scan for bytes in 0xB0..=0xDF
HasSuspiciousChars(slice) == \E i \in 1..Len(slice) : slice[i] \in 176..223

\* the 'recognize_encoding loop over the non-UTF-8 headers from the k-th on
RECURSIVE FeedHeaders(_, _, _)
FeedHeaders(hs, k, acc) ==
    IF k > Len(hs) THEN acc
    ELSE IF ~IsNonUtf8(hs[k]) THEN FeedHeaders(hs, k + 1, acc)
    ELSE
    LET a1 == [all_utf8 |-> FALSE,
               total_fed |-> acc.total_fed + Len(hs[k].name),
               suspicious |-> acc.suspicious \/ HasSuspiciousChars(hs[k].name)]
        a2 == [a1 EXCEPT !.total_fed = @ + Len(hs[k].comment),
                         !.suspicious = @ \/ HasSuspiciousChars(hs[k].comment)]
    IN
    IF ~(a1.total_fed < MAX_FEED) THEN a1
    ELSE IF ~(a2.total_fed < MAX_FEED) THEN a2
    ELSE FeedHeaders(hs, k + 1, a2)

\* (mutant: a Shift-JIS guess is taken at its word)
DetectEncodingTrustsGuess(hs, guess) ==
    LET fed == FeedHeaders(hs, 1, [all_utf8 |-> TRUE, total_fed |-> 0,
                                   suspicious |-> FALSE]) IN
    IF fed.all_utf8 THEN "Utf8"
    ELSE IF guess = "SHIFT_JIS" THEN "ShiftJis"
    ELSE IF guess = "UTF_8" THEN "Utf8"
    ELSE "Cp437"

DetectEncoding(hs, guess) ==
    LET fed == FeedHeaders(hs, 1, [all_utf8 |-> TRUE, total_fed |-> 0,
                                   suspicious |-> FALSE]) IN
    IF fed.all_utf8 THEN "Utf8"
    ELSE IF guess = "SHIFT_JIS" THEN (IF fed.suspicious THEN "ShiftJis" ELSE "Cp437")
    ELSE IF guess = "UTF_8" THEN "Utf8"
    ELSE "Cp437"

\* entries built from the directory headers, in order
BuildEntries(hs, encoding, global_offset) ==
    [i \in 1..Len(hs) |-> AsEntry(hs[i], encoding, global_offset)]

\* the end of the walk: count check, encoding detection, the Archive
FinishCentralDirectory(m, directory_headers, parsed_ranges) ==
    LET expected_records == ExpectedRecords(Len(directory_headers))
        actual_records == ActualRecords(DirectoryRecords(m.eocd))
    IN
    IF RecordCountMismatch(Len(directory_headers), DirectoryRecords(m.eocd))
    THEN [m EXCEPT !.directory_headers = directory_headers,
                   !.parsed_ranges = parsed_ranges,
                   !.result = "InvalidCentralRecord",
                   !.error = [expected |-> expected_records, actual |-> actual_records]]
    ELSE
    LET encoding == DetectEncoding(directory_headers, m.guess) IN
    [m EXCEPT !.directory_headers = directory_headers,
              !.parsed_ranges = parsed_ranges,
              !.result = "Done",
              !.archive = [eocd |-> m.eocd,
                           directory_headers |-> directory_headers,
                           size |-> m.size,
                           comment |-> m.eocd.dir.inner.comment,
                           entries |-> BuildEntries(directory_headers, encoding,
                                                    m.eocd.global_offset),
                           encoding |-> encoding,
                           parsed_ranges |-> parsed_ranges]]

\* the end of the range recorded for a header, and the start of the next
\* header's range, from the bytes consumed so far in this process() call
CurrentHeaderEnd(eocd, valid_consumed) == DirectoryOffset(eocd) + valid_consumed
AdvanceHeaderOffset(current_header_offset, valid_consumed) ==
    current_header_offset + valid_consumed

\* the 'read_headers loop; w holds the loop's locals: input (the offset of the
\* parser's input in buffer.data()), valid_consumed, current_header_offset,
\* directory_headers, the ranges, and exit (how the loop ended)
RECURSIVE ReadHeaders(_, _)
ReadHeaders(m, w) ==
    IF w.input >= Len(m.buffer.data) THEN [w EXCEPT !.exit = "empty"]
    ELSE
    LET p == ParseCentralDirectoryFileHeader(m.buffer.data, w.input) IN
    CASE p.kind = "Ok" ->
            LET valid_consumed == w.input + p.len
                entry == AsEntry(p.dh, "Utf8", m.eocd.global_offset)
                current_header_end == CurrentHeaderEnd(m.eocd, valid_consumed)
            IN ReadHeaders(m,
                 [input |-> valid_consumed,
                  valid_consumed |-> valid_consumed,
                  current_header_offset |->
                      AdvanceHeaderOffset(w.current_header_offset, valid_consumed),
                  directory_headers |-> Append(w.directory_headers, p.dh),
                  parsed_ranges |->
                      InsertRange(w.parsed_ranges, w.current_header_offset,
                                  current_header_end, "central directory header",
                                  Some(entry.name)),
                  exit |-> ""])
      [] p.kind = "Incomplete" -> [w EXCEPT !.exit = "incomplete"]
      [] OTHER -> [w EXCEPT !.exit = "backtrack"]

\* what process() keeps of the loop's current_header_offset for the next call:
\* the pattern binds the field by value, so the field itself is not written
KeepHeaderOffset(m, w) == m.current_header_offset

ProcessReadCentralDirectory(m) ==
    LET w == ReadHeaders(m, [input |-> 0, valid_consumed |-> 0,
                             current_header_offset |-> m.current_header_offset,
                             directory_headers |-> m.directory_headers,
                             parsed_ranges |-> m.parsed_ranges,
                             exit |-> ""])
    IN
    IF w.exit = "backtrack"
    THEN FinishCentralDirectory(m, w.directory_headers, w.parsed_ranges)
    ELSE [m EXCEPT !.directory_headers = w.directory_headers,
                   !.parsed_ranges = w.parsed_ranges,
                   !.current_header_offset = KeepHeaderOffset(m, w),
                   !.buffer = BufConsume(@, w.valid_consumed),
                   !.result = "Continue"]

ArchiveProcess(m) ==
    CASE m.state = "ReadEocd" -> ProcessReadEocd(m)
      [] m.state = "ReadEocd64Locator" -> ProcessReadEocd64Locator(m)
      [] m.state = "ReadEocd64" -> ProcessReadEocd64(m)
      [] m.state = "ReadCentralDirectory" -> ProcessReadCentralDirectory(m)

\* ArchiveFsm::space followed by ArchiveFsm::fill
ArchiveFill(m, bytes) == [m EXCEPT !.buffer = BufFill(BufSpace(@), bytes)]

----------------------------------------------------------------------------
(* The archive driver: wants_read, read into space, fill, process *)

FillSizes == {SmallFill, MidFill}

\* the bytes a read of at most n bytes at offset off returns
ReadAt(f, off, n) ==
    IF off >= Len(f) THEN <<>> ELSE Slice(f, off, Min(Len(f), off + n))

\* one read of the driver: at most n bytes (all that fit when n = 0)
DriverRead(f, m, n) ==
    LET room == BufAvailableSpace(BufSpace(m.buffer)) IN
    ReadAt(f, WantsRead(m), IF n = 0 THEN room ELSE Min(n, room))

IdleEntry == [name |-> <<>>, method |-> 0, crc32 |-> 0, compressed_size |-> 0,
              uncompressed_size |-> 0, header_offset |-> 0, aex |-> None]

NoCount == [headers_len |-> 0, records |-> 0, verdict |-> "none"]

ArchiveInit ==
    /\ fp \in FileParams
    /\ file = BuildFile(fp.names, fp.pre, fp.tail, fp.delta)
    /\ cnt = NoCount
    /\ journal = <<>>
    /\ lint = <<>>
    /\ det = <<>>
    /\ a = ArchiveFsmNew(Len(file))
    /\ apc = "fill"
    /\ ent = IdleEntry
    /\ payload = <<>>
    /\ e = <<>>
    /\ io = <<>>
    /\ epc = "idle"

AFill(n) ==
    /\ apc = "fill"
    /\ a' = ArchiveFill(a, DriverRead(file, a, n))
    /\ apc' = "process"
    /\ UNCHANGED <<fp, file, evars, cnt, journal, lint, det>>

\* the driver after process(): loop on Continue, stop on Done or an error
AfterProcess(m) == IF m.result = "Continue" THEN "fill" ELSE "end"

AProcessReadEocd ==
    /\ apc = "process"
    /\ a.state = "ReadEocd"
    /\ a' = ProcessReadEocd(a)
    /\ apc' = AfterProcess(a')
    /\ UNCHANGED <<fp, file, evars, cnt, journal, lint, det>>

AProcessReadEocd64Locator ==
    /\ apc = "process"
    /\ a.state = "ReadEocd64Locator"
    /\ a' = ProcessReadEocd64Locator(a)
    /\ apc' = AfterProcess(a')
    /\ UNCHANGED <<fp, file, evars, cnt, journal, lint, det>>

AProcessReadEocd64 ==
    /\ apc = "process"
    /\ a.state = "ReadEocd64"
    /\ a' = ProcessReadEocd64(a)
    /\ apc' = AfterProcess(a')
    /\ UNCHANGED <<fp, file, evars, cnt, journal, lint, det>>

AProcessReadCentralDirectory ==
    /\ apc = "process"
    /\ a.state = "ReadCentralDirectory"
    /\ a' = ProcessReadCentralDirectory(a)
    /\ apc' = AfterProcess(a')
    /\ UNCHANGED <<fp, file, evars, cnt, journal, lint, det>>

ArchiveNext ==
    \/ \E n \in FillSizes \cup {0} : AFill(n)
    \/ AProcessReadEocd
    \/ AProcessReadEocd64Locator
    \/ AProcessReadEocd64
    \/ AProcessReadCentralDirectory

SpecArchive == ArchiveInit /\ [][ArchiveNext]_vars

----------------------------------------------------------------------------
(* The record count check on its own *)

HeaderCounts == {0, 1, 2, 65534, 65535, 65536, 65537, 131071}
AnnouncedCounts == {0, 1, 2, 65534, 65535, 65536, 65537, 131071}

\* what the walk does at a non-header signature with headers_len headers read
\* and records announced
CountVerdict(headers_len, records) ==
    IF RecordCountMismatch(headers_len, records) THEN "InvalidCentralRecord"
    ELSE "Done"

CountInit ==
    /\ cnt \in [headers_len : HeaderCounts, records : AnnouncedCounts,
                verdict : {"none"}]
    /\ journal = <<>>
    /\ lint = <<>>
    /\ det = <<>>
    /\ fp = [names |-> <<>>, pre |-> 0, tail |-> "plain", delta |-> 0]
    /\ file = <<>>
    /\ a = ArchiveFsmNew(0)
    /\ apc = "idle"
    /\ ent = IdleEntry
    /\ payload = <<>>
    /\ e = <<>>
    /\ io = <<>>
    /\ epc = "idle"

CheckCount ==
    /\ cnt.verdict = "none"
    /\ cnt' = [cnt EXCEPT !.verdict = CountVerdict(cnt.headers_len, cnt.records)]
    /\ UNCHANGED <<avars, evars, journal, lint, det>>

CountNext == CheckCount

SpecCount == CountInit /\ [][CountNext]_vars

----------------------------------------------------------------------------
(* Encoding detection on its own: the headers of a finished walk and the   *)
(* guess of the character-detection engine                                  *)

MaxDetHeaders == 2

\* names and comments that reach the feed limit
LongName == 4096
NearName == 4095

Bytes(n, b) == [i \in 1..n |-> b]

\* a directory header as far as the detection reads it
DetHeader(name, comment, flags) == [name |-> name, comment |-> comment, flags |-> flags]

DetHeaders ==
    {DetHeader(<<97, 98>>, <<>>, 0),
     DetHeader(<<130, 160>>, <<>>, 0),
     DetHeader(<<97, 177>>, <<>>, 0),
     DetHeader(<<177, 97>>, <<>>, 2048),
     DetHeader(<<130>>, <<97, 223>>, 0),
     DetHeader(Bytes(LongName, 130), <<176>>, 0),
     DetHeader(Bytes(NearName, 130), <<97, 98>>, 0)}

\* what chardetng's guess(None, true) can return, as far as the code tells
\* the encodings apart
Guesses == {"SHIFT_JIS", "UTF_8", "WINDOWS_1252"}

DetectInit ==
    /\ det \in [headers : SeqsUpTo(DetHeaders, MaxDetHeaders), guess : Guesses,
                fed : {<<>>}, encoding : {"none"}]
    /\ cnt = NoCount
    /\ journal = <<>>
    /\ lint = <<>>
    /\ fp = [names |-> <<>>, pre |-> 0, tail |-> "plain", delta |-> 0]
    /\ file = <<>>
    /\ a = ArchiveFsmNew(0)
    /\ apc = "idle"
    /\ ent = IdleEntry
    /\ payload = <<>>
    /\ e = <<>>
    /\ io = <<>>
    /\ epc = "idle"

\* the detection block of process(): the feed loop, then the choice
Detect ==
    /\ det # <<>>
    /\ det.encoding = "none"
    /\ det' = [det EXCEPT
                 !.fed = FeedHeaders(det.headers, 1,
                             [all_utf8 |-> TRUE, total_fed |-> 0, suspicious |-> FALSE]),
                 !.encoding = DetectEncoding(det.headers, det.guess)]
    /\ UNCHANGED <<avars, evars, cnt, journal, lint>>

DetectNext == Detect

SpecDetect == DetectInit /\ [][DetectNext]_vars

----------------------------------------------------------------------------
(* Claims about ArchiveFsm *)

CDH_KIND == "central directory header"

\* where the k-th central directory header of the generated file starts
RECURSIVE HeaderStart(_, _)
HeaderStart(p, k) ==
    IF k <= 1 THEN p.pre
    ELSE HeaderStart(p, k - 1) + CDH_FIXED_LENGTH + Len(p.names[k - 1])

CdhRanges(pr) == SelectSeq(pr, LAMBDA r : r.contains = CDH_KIND)

\* the largest number of process() calls of the reference run
RunFuel == 8

\* the run of the driver that answers every wants_read() with all the bytes
\* that fit
RECURSIVE RunWhole(_, _, _)
RunWhole(f, m, fuel) ==
    IF fuel = 0 \/ m.result # "Continue" THEN m
    ELSE RunWhole(f, ArchiveProcess(ArchiveFill(m, DriverRead(f, m, 0))), fuel - 1)

Outcome(m) ==
    [result |-> m.result, error |-> m.error, entries |-> m.archive.entries,
     directory_headers |-> m.archive.directory_headers,
     parsed_ranges |-> m.archive.parsed_ranges]

\* C1: when the run ends in Done, every range [s,e) of Archive.parsed_ranges
\* satisfies 0 <= s < e <= size of the file
C1_RangesInsideFile ==
    a.result = "Done" =>
        \A i \in 1..Len(a.archive.parsed_ranges) :
            LET r == a.archive.parsed_ranges[i] IN
            0 <= r.start /\ r.start < r.end /\ r.end <= Len(file)

\* C2: the k-th range of kind `central directory header` is the byte span of
\* the k-th header: it starts where the header starts in the file (the first at
\* the directory offset, each next one where the previous ends) and is as long
\* as the header
C2_HeaderRangesAreSpans ==
    LET cdh == CdhRanges(a.parsed_ranges) IN
    \A k \in 1..Len(cdh) :
        /\ cdh[k].start = HeaderStart(fp, k)
        /\ cdh[k].end = HeaderStart(fp, k + 1)

\* C3: whatever the fill sizes, the run ends as the run of the driver that
\* fills all it can: same error, or Done with the same entries, the same
\* directory_headers and the same parsed_ranges
C3_FragmentationIndependent ==
    apc = "end" => Outcome(a) = Outcome(RunWhole(file, ArchiveFsmNew(Len(file)), RunFuel))

\* C4: at Done, entries and directory_headers have the same length, entries[i]
\* carries the name and the (globally offset) header offset of
\* directory_headers[i], and the length equals the announced record count
\* modulo 2^16
C4_EntriesAlignWithHeaders ==
    a.result = "Done" =>
        /\ Len(a.archive.entries) = Len(a.archive.directory_headers)
        /\ Len(a.archive.entries) = Len(fp.names)
        /\ \A i \in 1..Len(a.archive.entries) :
              /\ a.archive.entries[i].name = a.archive.directory_headers[i].name
              /\ a.archive.entries[i].name = fp.names[i]
              /\ a.archive.entries[i].header_offset =
                    a.archive.directory_headers[i].header_offset
                        + a.archive.eocd.global_offset
              /\ a.archive.entries[i].header_offset = 10 * (i - 1)
        /\ (Len(a.archive.entries) - DirectoryRecords(a.archive.eocd)) % 65536 = 0

C4_Witness ==
    /\ a.result = "Done"
    /\ Len(a.archive.entries) >= 2
    /\ a.archive.entries[1].name # a.archive.entries[2].name

\* C5: at a non-header signature the verdict is InvalidCentralRecord exactly
\* when the headers read and the records announced differ in their low 16
\* bits; 65535 read with 65535 announced, and 65536 read with 0 announced, pass
C5_CountComparedOn16Bits ==
    cnt.verdict # "none" =>
        /\ cnt.verdict = "InvalidCentralRecord"
              <=> (\A k \in -2..2 : cnt.headers_len - cnt.records # k * 65536)
        /\ (cnt.headers_len = 65535 /\ cnt.records = 65535) => cnt.verdict = "Done"
        /\ (cnt.headers_len = 65536 /\ cnt.records = 0) => cnt.verdict = "Done"

C5_Witness ==
    cnt.headers_len = 65536 /\ cnt.records = 0 /\ cnt.verdict = "Done"

\* C6: with an archive comment that contains the EOCD signature, the record
\* found is the real one: its offset is where the generated file puts the EOCD
\* record, and the range recorded for it runs from there to the end of the file
C6_RealEocdFound ==
    (fp.tail \in {"shortsig", "longsig"} /\ apc # "end" /\ a.state # "ReadEocd") =>
        /\ a.eocdr.offset = RealEocdOffset(fp.names, fp.pre, fp.tail)
        /\ a.parsed_ranges[1] =
              [start |-> RealEocdOffset(fp.names, fp.pre, fp.tail),
               end |-> Len(file),
               contains |-> "end of central directory record",
               filename |-> None]

C6_Witness ==
    fp.tail = "longsig" /\ a.state = "ReadCentralDirectory" /\ Len(a.parsed_ranges) >= 1

LOCATOR_KIND == "zip64 end of central directory locator"

\* C7: a process() call in state ReadEocd64Locator whose parse fails goes to
\* ReadCentralDirectory with Continue, no zip64 record and no new range; a
\* process() call in state ReadEocd64 whose parse fails returns
\* Directory64EndRecordInvalid and does not enter ReadCentralDirectory
C7_LocatorOptionalRecordMandatory ==
    [][ /\ ( /\ apc = "process"
             /\ a.state = "ReadEocd64Locator"
             /\ ParseEocd64Locator(a.buffer.data).kind \in {"Backtrack", "Cut"} )
           => ( /\ a'.result = "Continue"
                /\ a'.state = "ReadCentralDirectory"
                /\ ~a'.eocd.dir64.some
                /\ a'.parsed_ranges = a.parsed_ranges
                /\ \A i \in 1..Len(a'.parsed_ranges) :
                       a'.parsed_ranges[i].contains # LOCATOR_KIND )
        /\ ( /\ apc = "process"
             /\ a.state = "ReadEocd64"
             /\ ParseEocd64Record(a.buffer.data).kind \in {"Backtrack", "Cut"} )
           => ( /\ a'.result = "Directory64EndRecordInvalid"
                /\ a'.state # "ReadCentralDirectory"
                /\ apc' = "end" )
      ]_vars

C7_Witness ==
    /\ fp.tail = "zip64bad"
    /\ apc = "end"
    /\ a.result = "Directory64EndRecordInvalid"
    /\ \E i \in 1..Len(a.parsed_ranges) : a.parsed_ranges[i].contains = LOCATOR_KIND

----------------------------------------------------------------------------
(* Local records and their parsers *)

LFH_SIGNATURE == <<80, 75, 3, 4>>
DD_SIGNATURE == <<80, 75, 7, 8>>
\* fixed part of a local file header
LFH_FIXED_LENGTH == 30

METHOD_STORE == 0
METHOD_DEFLATE == 8
METHOD_AEX == 99

AllOnes(d, o, w) == \A i \in 1..w : d[o + i] = 255

NoLocalHeader == [flags |-> 0, method |-> 0, crc32 |-> 0, compressed_size |-> 0,
                  uncompressed_size |-> 0, sizes_max |-> FALSE,
                  name |-> <<>>, extra |-> <<>>]

\* LocalFileHeader::parser on a Partial input; sizes_max tells whether one of
\* the two declared sizes is u32::MAX
ParseLocalFileHeader(d) ==
    LET t == TagAt(d, 0, LFH_SIGNATURE) IN
    IF t # "Ok" THEN [kind |-> t, len |-> 0, header |-> NoLocalHeader]
    ELSE IF Len(d) < LFH_FIXED_LENGTH
    THEN [kind |-> "Incomplete", len |-> 0, header |-> NoLocalHeader]
    ELSE LET name_len == UInt(d, 26, 2)
             extra_len == UInt(d, 28, 2)
             total == LFH_FIXED_LENGTH + name_len + extra_len
         IN
         IF Len(d) < total THEN [kind |-> "Incomplete", len |-> 0, header |-> NoLocalHeader]
         ELSE [kind |-> "Ok", len |-> total,
               header |-> [flags |-> UInt(d, 6, 2),
                           method |-> UInt(d, 8, 2),
                           crc32 |-> UInt(d, 14, 4),
                           compressed_size |-> UInt(d, 18, 4),
                           uncompressed_size |-> UInt(d, 22, 4),
                           sizes_max |-> AllOnes(d, 18, 4) \/ AllOnes(d, 22, 4),
                           name |-> Slice(d, LFH_FIXED_LENGTH, LFH_FIXED_LENGTH + name_len),
                           extra |-> Slice(d, LFH_FIXED_LENGTH + name_len, total)]]

\* LocalFileHeader::has_data_descriptor: bit 3 of the flags
HasDataDescriptor(header) == (header.flags \div 8) % 2 = 1

\* LocalFileHeader::as_entry
LocalHeaderAsEntry(header) ==
    [name |-> header.name, method |-> header.method, crc32 |-> header.crc32,
     compressed_size |-> header.compressed_size,
     uncompressed_size |-> header.uncompressed_size,
     header_offset |-> 0, aex |-> None]

NoDescriptor == [crc32 |-> 0, compressed_size |-> 0, uncompressed_size |-> 0]

\* DataDescriptorRecord::mk_parser(is_zip64) on a Partial input: the optional
\* signature, the crc and the two sizes (32-bit, or 64-bit when is_zip64)
ParseDataDescriptor(d, is_zip64) ==
    LET t == TagAt(d, 0, DD_SIGNATURE)
        off == IF t = "Ok" THEN 4 ELSE 0
        w == IF is_zip64 THEN 8 ELSE 4
        need == off + 4 + 2 * w
    IN
    IF t = "Incomplete" \/ Len(d) < need
    THEN [kind |-> "Incomplete", len |-> 0, descriptor |-> NoDescriptor]
    ELSE [kind |-> "Ok", len |-> need,
          descriptor |-> [crc32 |-> UInt(d, off, 4),
                          compressed_size |-> UInt(d, off + 4, w),
                          uncompressed_size |-> UInt(d, off + 4 + w, w)]]

----------------------------------------------------------------------------
(* The CRC hasher and the decompressors *)

\* the checksum is kept modulo CrcModulus
CrcModulus == 251

\* crc32fast::Hasher: new, update, finalize
HasherNew == 0
RECURSIVE HasherUpdate(_, _)
HasherUpdate(h, bytes) ==
    IF bytes = <<>> THEN h
    ELSE HasherUpdate((h * 31 + Head(bytes) + 1) % CrcModulus, Tail(bytes))
HasherFinalize(h) == h
Crc(bytes) == HasherFinalize(HasherUpdate(HasherNew, bytes))

\* what a streaming codec (deflate and the like) makes of its input: in this
\* model every compressed byte stands for two equal plaintext bytes
RECURSIVE Expand(_)
Expand(bytes) ==
    IF bytes = <<>> THEN <<>>
    ELSE <<Head(bytes), Head(bytes)>> \o Expand(Tail(bytes))

NoDecompressor == [kind |-> "None", pending |-> <<>>, mode |-> 0,
                   salt_value |-> None, password_verification_value |-> None,
                   authentication_code |-> None]

AnyDecompressorFallsBackToStore(method, entry) ==
    [err |-> "", dec |-> [NoDecompressor EXCEPT !.kind = "Store"]]

\* AnyDecompressor::new
AnyDecompressorNew(method, entry) ==
    CASE method = METHOD_STORE ->
            [err |-> "", dec |-> [NoDecompressor EXCEPT !.kind = "Store"]]
      [] method = METHOD_DEFLATE ->
            [err |-> "", dec |-> [NoDecompressor EXCEPT !.kind = "Stream"]]
      [] method = METHOD_AEX ->
            IF entry.some /\ entry.v.aex.some
            THEN [err |-> "", dec |-> [NoDecompressor EXCEPT !.kind = "Aex",
                                                             !.mode = entry.v.aex.v]]
            ELSE [err |-> "Panic", dec |-> NoDecompressor]
      [] OTHER -> [err |-> "MethodNotSupported", dec |-> NoDecompressor]

DecResult(dec, bytes_read, out, err) ==
    [dec |-> dec, bytes_read |-> bytes_read, bytes_written |-> Len(out),
     out |-> out, err |-> err]

\* StoreDec::decompress
StoreDecompress(dec, in_buf, out_len) ==
    LET n == Min(Len(in_buf), out_len) IN
    DecResult(dec, n, SubSeq(in_buf, 1, n), "")

\* a streaming codec: takes its input in, hands out what fits, keeps the rest
StreamDecompress(dec, in_buf, out_len) ==
    LET all == dec.pending \o Expand(in_buf)
        n == Min(Len(all), out_len)
    IN DecResult([dec EXCEPT !.pending = SubSeq(all, n + 1, Len(all))],
                 Len(in_buf), SubSeq(all, 1, n), "")

PASSWORD_VERIFICATION_SIZE == 2
AUTHENTICATION_CODE_SIZE == 10

AexSaltSize(mode) ==
    CASE mode = 1 -> 8 [] mode = 2 -> 12 [] mode = 3 -> 16 [] OTHER -> 0

\* AexDec::decompress
AexDecompress(dec, in_buf, out_len, has_more_input) ==
    LET salt_size == AexSaltSize(dec.mode) IN
    IF dec.mode \notin {1, 2, 3} THEN DecResult(dec, 0, <<>>, "InvalidExtraField")
    ELSE IF Len(in_buf) < salt_size + 2 THEN DecResult(dec, Len(in_buf), <<>>, "")
    ELSE
    LET first == ~dec.salt_value.some
        rest == IF first
                THEN SubSeq(in_buf, salt_size + PASSWORD_VERIFICATION_SIZE + 1, Len(in_buf))
                ELSE in_buf
        d1 == IF first
              THEN [dec EXCEPT !.salt_value = Some(SubSeq(in_buf, 1, salt_size)),
                               !.password_verification_value =
                                   Some(SubSeq(in_buf, salt_size + 1,
                                               salt_size + PASSWORD_VERIFICATION_SIZE))]
              ELSE dec
    IN
    IF has_more_input = "No" /\ Len(rest) < AUTHENTICATION_CODE_SIZE
    THEN DecResult(d1, 0, <<>>, "Panic")
    ELSE
    LET d2 == IF has_more_input = "No"
              THEN [d1 EXCEPT !.authentication_code =
                        Some(SubSeq(rest, Len(rest) - AUTHENTICATION_CODE_SIZE + 1,
                                    Len(rest)))]
              ELSE d1
        bytes_read == Min(Len(in_buf), out_len)
    IN DecResult(d2, bytes_read, SubSeq(in_buf, 1, bytes_read), "")

\* AexDec::take_aex_data
TakeAexData(dec) ==
    IF dec.salt_value.some /\ dec.password_verification_value.some
           /\ dec.authentication_code.some
    THEN Some([salt_value |-> dec.salt_value.v,
               password_verification_value |-> dec.password_verification_value.v,
               authentication_code |-> dec.authentication_code.v])
    ELSE None

\* AnyDecompressor::decompress
Decompress(dec, in_buf, out_len, has_more_input) ==
    CASE dec.kind = "Store" -> StoreDecompress(dec, in_buf, out_len)
      [] dec.kind = "Stream" -> StreamDecompress(dec, in_buf, out_len)
      [] OTHER -> AexDecompress(dec, in_buf, out_len, has_more_input)

----------------------------------------------------------------------------
(* EntryFsm (fsm/entry/mod.rs) *)

BUF_CAPACITY == 262144

NoMetrics == [uncompressed_size |-> 0, crc32 |-> 0]
NoOutcome == [bytes_read |-> 0, bytes_written |-> 0]
NoFormatError == [expected |-> 0, actual |-> 0]

NoCall == [called |-> FALSE, in_len |-> 0, has_more_input |-> "Yes", err |-> "",
           bytes_read |-> 0, bytes_written |-> 0]

\* EntryFsm::new.  The fields of the State variants are kept side by side;
\* result, error, outcome and out hold what the last process() call returned;
\* fed is the largest count of payload bytes handed to the decompressor so far,
\* call is what the last ReadData turn passed to decompressor.decompress and
\* what that returned
EntryFsmNew(entry, parsed_ranges) ==
    [state |-> "ReadLocalHeader",
     entry |-> entry,
     local_header |-> None,
     buffer |-> BufferWithCapacity(BUF_CAPACITY),
     parsed_ranges |-> parsed_ranges,
     aex_data |-> None,
     is_zip64 |-> FALSE,
     has_data_descriptor |-> FALSE,
     compressed_bytes |-> 0,
     uncompressed_bytes |-> 0,
     hasher |-> HasherNew,
     decompressor |-> NoDecompressor,
     data_start |-> 0,
     metrics |-> NoMetrics,
     descriptor |-> None,
     data_descriptor_start |-> 0,
     result |-> "Continue",
     error |-> NoFormatError,
     outcome |-> NoOutcome,
     out |-> <<>>,
     fed |-> 0,
     call |-> NoCall]

\* EntryFsm::wants_read
EntryWantsRead(m) ==
    CASE m.state = "ReadLocalHeader" -> TRUE
      [] m.state = "ReadData" -> BufAvailableSpace(m.buffer) > 0
      [] m.state = "ReadDataDescriptor" -> TRUE
      [] OTHER -> FALSE

\* EntryFsm::space followed by EntryFsm::fill
EntryFill(m, bytes) == [m EXCEPT !.buffer = BufFill(BufSpace(@), bytes)]

\* Ok(FsmResult::Continue((self, outcome)))
Continue(m, bytes_read, out) ==
    [m EXCEPT !.result = "Continue",
              !.outcome = [bytes_read |-> bytes_read, bytes_written |-> Len(out)],
              !.out = out]

\* Err(..)
Fail(m, err) == [m EXCEPT !.result = err, !.outcome = NoOutcome, !.out = <<>>]

\* EntryFsm::internal_process_local_header: the state is ReadData afterwards
\* when it returned Ok(true), result is the error when it returned one
InternalProcessLocalHeader(m) ==
    LET p == ParseLocalFileHeader(m.buffer.data) IN
    IF p.kind = "Incomplete" THEN [m EXCEPT !.result = "Continue"]
    ELSE IF p.kind # "Ok" THEN Fail(m, "InvalidLocalHeader")
    ELSE
    LET d == AnyDecompressorNew(p.header.method, m.entry) IN
    IF d.err # "" THEN Fail(m, d.err)
    ELSE
    LET entry == IF m.entry.some THEN m.entry.v ELSE LocalHeaderAsEntry(p.header)
        start == entry.header_offset
        length == p.len
    IN [m EXCEPT !.entry = Some(entry),
                 !.state = "ReadData",
                 !.is_zip64 = p.header.sizes_max,
                 !.has_data_descriptor = HasDataDescriptor(p.header),
                 !.compressed_bytes = 0,
                 !.uncompressed_bytes = 0,
                 !.hasher = HasherNew,
                 !.decompressor = d.dec,
                 !.data_start = start + length,
                 !.parsed_ranges = InsertOffsetLength(@, start, length,
                                       "local file header", Some(entry.name)),
                 !.local_header = Some(p.header),
                 !.buffer = BufConsume(@, p.len),
                 !.result = "Continue"]

\* EntryFsm::process_till_header: the machine afterwards; result is the error
\* when it returned one
ProcessTillHeader(m) ==
    IF m.state = "ReadLocalHeader" THEN InternalProcessLocalHeader(m)
    ELSE [m EXCEPT !.result = "Continue"]

\* the Option<&Entry> process_till_header returns in its Ok
TillHeaderReturn(m) == m.entry

InBufUnclamped(in_len, compressed_size, compressed_bytes) == in_len

\* the length of the slice handed to the decompressor
InBufMaxLen(in_len, compressed_size, compressed_bytes) ==
    Min(in_len, compressed_size - compressed_bytes)

ExpectedCrcPrefersDescriptor(entry, descriptor) ==
    IF descriptor.some THEN descriptor.v.crc32 ELSE entry.crc32

\* the CRC the entry is validated against
ExpectedCrc32(entry, descriptor) ==
    IF entry.crc32 # 0 THEN entry.crc32
    ELSE IF descriptor.some THEN descriptor.v.crc32
    ELSE 0

SizeMismatchAnyEntry(entry, metrics) ==
    entry.uncompressed_size # metrics.uncompressed_size

SizeMismatch(entry, metrics) ==
    entry.uncompressed_size # metrics.uncompressed_size /\ ~entry.aex.some

ChecksumMismatchOnEntryCrc(entry, metrics, descriptor) ==
    entry.crc32 # 0 /\ entry.crc32 # metrics.crc32 /\ ~entry.aex.some

ChecksumMismatch(entry, metrics, descriptor) ==
    LET expected_crc32 == ExpectedCrc32(entry, descriptor) IN
    expected_crc32 # 0 /\ expected_crc32 # metrics.crc32 /\ ~entry.aex.some

\* EntryFsm::process in state Validate
ProcessValidate(m) ==
    LET entry == m.entry.v IN
    IF SizeMismatch(entry, m.metrics)
    THEN [Fail(m, "WrongSize") EXCEPT
              !.error = [expected |-> entry.uncompressed_size,
                         actual |-> m.metrics.uncompressed_size]]
    ELSE IF ChecksumMismatch(entry, m.metrics, m.descriptor)
    THEN [Fail(m, "WrongChecksum") EXCEPT
              !.error = [expected |-> ExpectedCrc32(entry, m.descriptor),
                         actual |-> m.metrics.crc32]]
    ELSE [m EXCEPT !.result = "Done", !.outcome = NoOutcome, !.out = <<>>]

RECURSIVE EntryProcess(_, _)

\* EntryFsm::process in state ReadLocalHeader
ProcessReadLocalHeader(m, out_len) ==
    LET m1 == InternalProcessLocalHeader(m) IN
    IF m1.result # "Continue" THEN m1
    ELSE IF m1.state = "ReadData" THEN EntryProcess(m1, out_len)
    ELSE Continue(m1, 0, <<>>)

\* (mutant: ReadData never finds itself done)
ReadDataNeverDone(bytes_written, compressed_bytes, compressed_size) == FALSE

\* "eof and no bytes written, we're done"
ReadDataDone(bytes_written, compressed_bytes, compressed_size) ==
    bytes_written = 0 /\ compressed_bytes = compressed_size

\* (mutant: the data descriptor is never read)
AfterReadDataSkipsDescriptor(has_data_descriptor) == "Validate"

\* the state that follows ReadData
AfterReadData(has_data_descriptor) ==
    IF has_data_descriptor THEN "ReadDataDescriptor" ELSE "Validate"

\* (mutant: the decompressor is never told that its input is complete)
HasMoreInputAlways(fed_bytes_after_this, compressed_size) == "Yes"

\* has_more_input: No when this turn hands over the last compressed byte
HasMoreInput(fed_bytes_after_this, compressed_size) ==
    IF fed_bytes_after_this = compressed_size THEN "No" ELSE "Yes"

\* EntryFsm::process in state ReadData
ProcessReadData(m, out_len) ==
    LET entry == m.entry.v
        buffered == m.buffer.data
    IN
    IF buffered = <<>> /\ m.compressed_bytes < entry.compressed_size
    THEN Continue([m EXCEPT !.call = NoCall], 0, <<>>)
    ELSE
    LET in_buf_max_len == InBufMaxLen(Len(buffered), entry.compressed_size,
                                      m.compressed_bytes)
        in_buf == SubSeq(buffered, 1, in_buf_max_len)
        bytes_fed_this_turn == Len(in_buf)
        fed_bytes_after_this == m.compressed_bytes + Len(in_buf)
        has_more_input == HasMoreInput(fed_bytes_after_this, entry.compressed_size)
        r == Decompress(m.decompressor, in_buf, out_len, has_more_input)
        m0 == [m EXCEPT !.fed = IF fed_bytes_after_this > @
                                THEN fed_bytes_after_this ELSE @,
                        !.call = [called |-> TRUE, in_len |-> Len(in_buf),
                                  has_more_input |-> has_more_input, err |-> r.err,
                                  bytes_read |-> r.bytes_read,
                                  bytes_written |-> r.bytes_written]]
    IN
    IF r.err # "" THEN Fail(m0, r.err)
    ELSE
    LET m1 == [m0 EXCEPT !.decompressor = r.dec,
                         !.buffer = BufConsume(@, r.bytes_read),
                         !.compressed_bytes = @ + r.bytes_read]
    IN
    IF ReadDataDone(r.bytes_written, m1.compressed_bytes, entry.compressed_size)
    THEN LET file_data_end == m1.data_start + m1.compressed_bytes IN
         EntryProcess(
             [m1 EXCEPT !.parsed_ranges = InsertRange(@, m1.data_start, file_data_end,
                                              "file data", Some(entry.name)),
                        !.aex_data = IF r.dec.kind = "Aex" THEN TakeAexData(r.dec)
                                     ELSE @,
                        !.metrics = [uncompressed_size |-> m1.uncompressed_bytes,
                                     crc32 |-> HasherFinalize(m1.hasher)],
                        !.state = AfterReadData(m1.has_data_descriptor),
                        !.data_descriptor_start = IF m1.has_data_descriptor
                                                  THEN file_data_end ELSE @,
                        !.descriptor = None],
             out_len)
    ELSE IF r.bytes_written = 0 /\ r.bytes_read = 0 /\ bytes_fed_this_turn = 0
    THEN Fail(m1, "UnexpectedEof")
    ELSE Continue([m1 EXCEPT !.hasher = HasherUpdate(@, r.out),
                             !.uncompressed_bytes = @ + r.bytes_written],
                  r.bytes_read, r.out)

\* EntryFsm::process in state ReadDataDescriptor
ProcessReadDataDescriptor(m, out_len) ==
    LET p == ParseDataDescriptor(m.buffer.data, m.is_zip64) IN
    IF p.kind = "Incomplete" THEN Continue(m, 0, <<>>)
    ELSE IF p.kind # "Ok" THEN Fail(m, "InvalidDataDescriptor")
    ELSE EntryProcess(
             [m EXCEPT !.buffer = BufConsume(@, p.len),
                       !.parsed_ranges = InsertOffsetLength(@, m.data_descriptor_start,
                                             p.len, "data descriptor",
                                             Some(m.entry.v.name)),
                       !.descriptor = Some(p.descriptor),
                       !.state = "Validate"],
             out_len)

\* EntryFsm::process
EntryProcess(m, out_len) ==
    CASE m.state = "ReadLocalHeader" -> ProcessReadLocalHeader(m, out_len)
      [] m.state = "ReadData" -> ProcessReadData(m, out_len)
      [] m.state = "ReadDataDescriptor" -> ProcessReadDataDescriptor(m, out_len)
      [] OTHER -> ProcessValidate(m)

----------------------------------------------------------------------------
(* Entries to read: a local header, the payload, a data descriptor, and the
   bytes of whatever follows the entry in the file *)

AexShort == 12
AexLong == 22
TrailingLen == 5
EntryOffset == 100

Payloads == {<<>>, <<7>>, <<7, 9, 11>>}
AexPayloads == {[i \in 1..AexShort |-> i], [i \in 1..AexLong |-> i]}

\* what the entry's payload decompresses to
Plain(p) == IF p.method = METHOD_DEFLATE THEN Expand(p.data) ELSE p.data

BadCrc(c) == IF c + 1 >= CrcModulus THEN 1 ELSE c + 1

DeclaredCrc(p) ==
    CASE p.crc = "ok" -> Crc(Plain(p))
      [] p.crc = "bad" -> BadCrc(Crc(Plain(p)))
      [] OTHER -> 0

DescriptorCrc(p) ==
    IF p.desc = "sigbad" THEN BadCrc(Crc(Plain(p))) ELSE Crc(Plain(p))

EntryOf(p) ==
    [name |-> <<97>>, method |-> p.method, crc32 |-> DeclaredCrc(p),
     compressed_size |-> Len(p.data),
     uncompressed_size |-> Len(Plain(p)) + p.usdelta,
     header_offset |-> IF p.known THEN EntryOffset ELSE 0,
     aex |-> IF p.aex = 0 THEN None ELSE Some(p.aex)]

LocalHeaderBytes(p) ==
    LET en == EntryOf(p) IN
    LFH_SIGNATURE \o LE(20, 2) \o LE(IF p.desc = "none" THEN 0 ELSE 8, 2)
        \o LE(en.method, 2) \o Zeros(4) \o LE(en.crc32, 4)
        \o LE(en.compressed_size, 4) \o LE(en.uncompressed_size, 4)
        \o LE(Len(en.name), 2) \o LE(0, 2) \o en.name

DescriptorBytes(p) ==
    LET en == EntryOf(p)
        body == LE(DescriptorCrc(p), 4) \o LE(en.compressed_size, 4)
                    \o LE(en.uncompressed_size, 4)
    IN CASE p.desc = "none" -> <<>>
         [] p.desc = "nosig" -> body
         [] OTHER -> DD_SIGNATURE \o body

EntryBytes(p) ==
    LocalHeaderBytes(p) \o p.data \o DescriptorBytes(p)
        \o SubSeq(LFH_SIGNATURE \o Zeros(p.trailing), 1, p.trailing)

EntryParams ==
    { p \in [method : {METHOD_STORE, METHOD_DEFLATE, METHOD_AEX, 1},
             data : Payloads \cup AexPayloads,
             usdelta : {0, 1},
             crc : {"ok", "bad", "zero"},
             desc : {"none", "sig", "nosig", "sigbad"},
             aex : {0, 1, 4},
             trailing : {0, TrailingLen},
             known : BOOLEAN] :
        /\ (p.method = METHOD_AEX) <=> (p.data \in AexPayloads)
        /\ p.method = METHOD_AEX => p.crc # "zero" /\ p.desc \in {"none", "sig"}
        /\ p.method = 1 =>
               /\ p.data = <<7>> /\ p.usdelta = 0 /\ p.crc = "ok"
               /\ p.desc = "none" /\ p.aex = 0 /\ p.trailing = 0
        /\ p.aex = 4 => p.method = METHOD_AEX
        /\ ~p.known => p.aex = 0 /\ p.desc = "none" /\ p.trailing = 0
        /\ p.crc = "bad" => p.desc \in {"none", "sig"} }

----------------------------------------------------------------------------
(* The entry driver: LocalHeaderReader::read, one turn of its loop at a time *)

EntryFillLen == 16
OutSmall == 1
OutLarge == 4

EntryFillSizes == {SmallFill, EntryFillLen}
OutSizes == {OutSmall, OutLarge}

EntryInit ==
    /\ fp \in EntryParams
    /\ ent = EntryOf(fp)
    /\ payload = EntryBytes(fp)
    /\ e = EntryFsmNew(IF fp.known THEN Some(ent) ELSE None, ParsedRangesNew)
    /\ io = [pos |-> 0, filled_bytes |-> 0, emitted |-> <<>>]
    /\ epc = "fill"
    /\ file = <<>>
    /\ a = <<>>
    /\ apc = "idle"
    /\ cnt = NoCount
    /\ journal = <<>>
    /\ lint = <<>>
    /\ det = <<>>

\* if fsm.wants_read() { n = rd.read(fsm.space()); fsm.fill(n) }: the reader
\* returns at most n bytes (all that fit when n = 0)
EFill(n) ==
    /\ epc = "fill"
    /\ LET room == BufAvailableSpace(BufSpace(e.buffer))
           bytes == IF EntryWantsRead(e)
                    THEN ReadAt(payload, io.pos, IF n = 0 THEN room ELSE Min(n, room))
                    ELSE <<>>
       IN /\ e' = IF EntryWantsRead(e) THEN EntryFill(e, bytes) ELSE e
          /\ io' = [io EXCEPT !.pos = @ + Len(bytes), !.filled_bytes = Len(bytes)]
    /\ epc' = "process"
    /\ UNCHANGED <<fp, file, a, apc, ent, payload, cnt, journal, lint, det>>

\* what read() does with the result of process()
AfterEntryProcess(m, filled_bytes) ==
    IF m.result = "Continue"
    THEN IF m.outcome.bytes_written > 0 THEN "fill"
         ELSE IF filled_bytes > 0 \/ m.outcome.bytes_read > 0 THEN "fill"
         ELSE "noprogress"
    ELSE "end"

EProcess(out_len) ==
    /\ epc = "process"
    /\ e' = EntryProcess(e, out_len)
    /\ io' = [io EXCEPT !.emitted = @ \o e'.out]
    /\ epc' = AfterEntryProcess(e', io.filled_bytes)
    /\ UNCHANGED <<fp, file, a, apc, ent, payload, cnt, journal, lint, det>>

EProcessReadLocalHeader ==
    /\ epc = "process"
    /\ e.state = "ReadLocalHeader"
    /\ \E out_len \in OutSizes : EProcess(out_len)

EProcessReadData ==
    /\ epc = "process"
    /\ e.state = "ReadData"
    /\ \E out_len \in OutSizes : EProcess(out_len)

EProcessReadDataDescriptor ==
    /\ epc = "process"
    /\ e.state = "ReadDataDescriptor"
    /\ \E out_len \in OutSizes : EProcess(out_len)

EntryNext ==
    \/ \E n \in EntryFillSizes \cup {0} : EFill(n)
    \/ EProcessReadLocalHeader
    \/ EProcessReadData
    \/ EProcessReadDataDescriptor

SpecEntry == EntryInit /\ [][EntryNext]_vars

----------------------------------------------------------------------------
(* Claims about EntryFsm *)

\* C8: in every ReadData state compressed_bytes is at most the entry's
\* compressed size, and over the whole run the decompressor is handed, and
\* consumes, at most compressed_size bytes of payload, however many bytes
\* beyond the entry the driver has put in the buffer.
C8_AtMostCompressedSizeFed ==
    e.entry.some =>
        /\ e.compressed_bytes <= e.entry.v.compressed_size
        /\ e.fed <= e.entry.v.compressed_size

\* the whole payload is consumed while bytes of what follows the entry are
\* still in the buffer
C8_Witness ==
    /\ e.state = "ReadData"
    /\ e.entry.v.compressed_size > 0
    /\ e.compressed_bytes = e.entry.v.compressed_size
    /\ io.pos > e.data_start - e.entry.v.header_offset + e.entry.v.compressed_size
    /\ Len(e.buffer.data) > 0

\* the CRC the file declares for the entry: the entry's, or the descriptor's
\* when the entry's is zero and there is a descriptor
DeclaredExpectedCrc ==
    IF e.entry.v.crc32 # 0 THEN e.entry.v.crc32
    ELSE IF fp.desc # "none" THEN DescriptorCrc(fp)
    ELSE 0

\* C9 as stated: whenever process returns Done for an entry without aex, the
\* bytes emitted number entry.uncompressed_size and their CRC32 equals the
\* expected CRC32.
C9_DoneMeansSizeAndCrcMatch ==
    (e.result = "Done" /\ ~e.entry.v.aex.some) =>
        /\ Len(io.emitted) = e.entry.v.uncompressed_size
        /\ Crc(io.emitted) = DeclaredExpectedCrc

\* C9, amended: whenever process returns Done for an entry without aex, the
\* bytes emitted number entry.uncompressed_size and, when the expected CRC32
\* is not zero, their CRC32 equals it.
C9_DoneMeansSizeAndKnownCrcMatch ==
    (e.result = "Done" /\ ~e.entry.v.aex.some) =>
        /\ Len(io.emitted) = e.entry.v.uncompressed_size
        /\ (DeclaredExpectedCrc # 0 => Crc(io.emitted) = DeclaredExpectedCrc)

\* Done for an entry without aex whose CRC comes from the data descriptor
C9_Witness ==
    /\ e.result = "Done"
    /\ ~e.entry.v.aex.some
    /\ e.entry.v.crc32 = 0
    /\ DeclaredExpectedCrc # 0
    /\ Len(io.emitted) > 0

\* C10: in Validate, when the entry has no aex and the bytes emitted do not
\* number entry.uncompressed_size, process returns WrongSize with expected =
\* entry.uncompressed_size and actual = the bytes emitted, not Done; when the
\* entry has aex, WrongSize is never returned.
C10_WrongSizeUnlessAex ==
    /\ (e.state = "Validate" /\ ~e.entry.v.aex.some
            /\ Len(io.emitted) # e.entry.v.uncompressed_size) =>
           /\ e.result = "WrongSize"
           /\ e.error = [expected |-> e.entry.v.uncompressed_size,
                         actual |-> Len(io.emitted)]
    /\ (e.entry.some /\ e.entry.v.aex.some) => e.result # "WrongSize"

\* a size mismatch reported after some bytes were emitted
C10_Witness ==
    /\ e.state = "Validate"
    /\ e.result = "WrongSize"
    /\ Len(io.emitted) > 0
    /\ e.error.expected = Len(io.emitted) + 1

\* an entry with aex whose emitted bytes do not number its declared size
\* is accepted
C10_WitnessAex ==
    /\ e.state = "Validate"
    /\ e.entry.v.aex.some
    /\ Len(io.emitted) # e.entry.v.uncompressed_size
    /\ e.result = "Done"

\* C11: in Validate the expected CRC is entry.crc32 when that is not zero,
\* otherwise the crc32 of the data descriptor that was read, otherwise 0; with
\* the sizes matching and no aex, process returns WrongChecksum{expected,
\* actual} exactly when the expected CRC is not zero and differs from the CRC32
\* of the bytes emitted.
C11_WrongChecksumIffKnownCrcDiffers ==
    (e.state = "Validate" /\ ~e.entry.v.aex.some
         /\ Len(io.emitted) = e.entry.v.uncompressed_size) =>
        /\ (e.result = "WrongChecksum") <=>
               (DeclaredExpectedCrc # 0 /\ DeclaredExpectedCrc # Crc(io.emitted))
        /\ (e.result = "WrongChecksum") =>
               e.error = [expected |-> DeclaredExpectedCrc,
                          actual |-> Crc(io.emitted)]
        /\ (e.result # "WrongChecksum") => e.result = "Done"

\* a checksum error against the CRC of the data descriptor, the entry's being 0
C11_Witness ==
    /\ e.state = "Validate"
    /\ e.result = "WrongChecksum"
    /\ e.entry.v.crc32 = 0
    /\ e.descriptor.some
    /\ e.error.expected = e.descriptor.v.crc32
    /\ Len(io.emitted) > 0

\* the fixture's compression method is none the machine has a decompressor for
UnsupportedMethod == fp.method \notin {METHOD_STORE, METHOD_DEFLATE, METHOD_AEX}

\* C12 as stated: for an entry whose method is unsupported, MethodNotSupported
\* is raised when the machine is constructed, before any input is filled or
\* any process call is made.
C12_RaisedAtConstruction ==
    UnsupportedMethod => (e.result = "MethodNotSupported" /\ io.pos = 0)

\* C12, amended: for an entry whose method is unsupported, construction
\* succeeds and MethodNotSupported is raised by the process call that parses
\* the complete local header: the machine never leaves ReadLocalHeader, and
\* no payload byte is consumed, handed to a decompressor or emitted, and no
\* range is recorded.
C12_RaisedAtLocalHeader ==
    /\ UnsupportedMethod =>
           /\ e.state = "ReadLocalHeader"
           /\ e.result \in {"Continue", "MethodNotSupported"}
           /\ (epc = "end" => e.result = "MethodNotSupported")
    /\ e.result = "MethodNotSupported" =>
           /\ UnsupportedMethod
           /\ e.state = "ReadLocalHeader"
           /\ ParseLocalFileHeader(e.buffer.data).kind = "Ok"
           /\ e.compressed_bytes = 0
           /\ e.fed = 0
           /\ io.emitted = <<>>
           /\ e.parsed_ranges = ParsedRangesNew

\* the error is raised once the whole local header has been filled in
C12_Witness ==
    /\ e.result = "MethodNotSupported"
    /\ io.pos >= Len(LocalHeaderBytes(fp))
    /\ epc = "end"

\* an AE-x entry of a valid mode whose payload holds at least the salt, the
\* verifier and the authentication code
AexEntryWellFormed ==
    /\ fp.method = METHOD_AEX
    /\ fp.aex \in {1, 2, 3}
    /\ Len(fp.data) >= AexSaltSize(fp.aex) + PASSWORD_VERIFICATION_SIZE
                           + AUTHENTICATION_CODE_SIZE

\* the reader's loop has stopped: Done, an error, or no progress
EntryRunEnded == epc \in {"end", "noprogress"}

\* C13: for every AE-x entry of mode 1, 2 or 3 with compressed_size >=
\* salt_size + 2 + 10, however the payload is split across process calls, the
\* machine ends in Done, with no size or CRC error, and returns an AexData
\* whose salt has 8/12/16 bytes by mode, whose verifier has 2 bytes and whose
\* authentication code has 10 bytes.
C13_AexEndsDoneWithAexData ==
    (AexEntryWellFormed /\ EntryRunEnded) =>
        /\ e.result = "Done"
        /\ e.aex_data.some
        /\ Len(e.aex_data.v.salt_value) = AexSaltSize(fp.aex)
        /\ Len(e.aex_data.v.password_verification_value) = PASSWORD_VERIFICATION_SIZE
        /\ Len(e.aex_data.v.authentication_code) = AUTHENTICATION_CODE_SIZE

\* C14: for an AE-x entry, the salt in AexData is the first salt_size bytes of
\* the payload, the verifier the 2 bytes that follow, and the authentication
\* code the last 10 bytes of the payload, however the payload is fragmented.
C14_AexDataFromPayloadLayout ==
    (AexEntryWellFormed /\ e.aex_data.some) =>
        LET n == AexSaltSize(fp.aex)
            size == Len(fp.data)
        IN /\ e.aex_data.v.salt_value = SubSeq(fp.data, 1, n)
           /\ e.aex_data.v.password_verification_value =
                  SubSeq(fp.data, n + 1, n + PASSWORD_VERIFICATION_SIZE)
           /\ e.aex_data.v.authentication_code =
                  SubSeq(fp.data, size - AUTHENTICATION_CODE_SIZE + 1, size)

IsPrefix(s, t) == Len(s) <= Len(t) /\ s = SubSeq(t, 1, Len(s))

\* C15: for a Store entry with payload P, the bytes handed out by successive
\* process calls, put end to end, are P exactly once the machine is past the
\* data (and a prefix of P before), for every fragmentation of the input and
\* every sequence of non-empty output buffers.
C15_StoreRoundTrip ==
    fp.method = METHOD_STORE =>
        /\ IsPrefix(io.emitted, fp.data)
        /\ e.state \in {"ReadDataDescriptor", "Validate"} => io.emitted = fp.data
        /\ EntryRunEnded => e.state = "Validate"

\* a three-byte payload read back whole, one byte per call at least once
C15_Witness ==
    /\ fp.method = METHOD_STORE
    /\ e.result = "Done"
    /\ Len(fp.data) > 1
    /\ io.emitted = fp.data
    /\ Len(e.out) = 0
    /\ e.outcome.bytes_written = 0

----------------------------------------------------------------------------
(* A caller of process_till_header: fill, call, and again *)

HeaderInit ==
    /\ fp \in EntryParams
    /\ ent = EntryOf(fp)
    /\ payload = EntryBytes(fp)
    /\ e = EntryFsmNew(IF fp.known THEN Some(ent) ELSE None, ParsedRangesNew)
    /\ io = [pos |-> 0, filled_bytes |-> 0, emitted |-> <<>>,
             calls |-> 0, returned |-> None]
    /\ epc = "fill"
    /\ file = <<>>
    /\ a = <<>>
    /\ apc = "idle"
    /\ cnt = NoCount
    /\ journal = <<>>
    /\ lint = <<>>
    /\ det = <<>>

EProcessTillHeader ==
    /\ epc = "process"
    /\ e' = ProcessTillHeader(e)
    /\ io' = [io EXCEPT !.calls = IF @ < 2 THEN @ + 1 ELSE @,
                        !.returned = IF e'.result = "Continue"
                                     THEN TillHeaderReturn(e') ELSE None]
    /\ epc' = IF e'.result = "Continue" THEN "fill" ELSE "end"
    /\ UNCHANGED <<fp, file, a, apc, ent, payload, cnt, journal, lint, det>>

HeaderNext ==
    \/ \E n \in EntryFillSizes \cup {0} : EFill(n)
    \/ EProcessTillHeader

SpecHeader == HeaderInit /\ [][HeaderNext]_vars

\* C16: process_till_header returns Ok(None) whenever the local header has
\* not yet been parsed completely, and Ok(Some(entry)) only once it has been
\* parsed, whether the machine was built with an upstream entry or without.
C16_SomeOnlyOnceHeaderParsed ==
    (io.calls > 0 /\ epc = "fill") =>
        (io.returned.some <=> e.state # "ReadLocalHeader")

----------------------------------------------------------------------------
(* One run of either machine *)

FsmInit == ArchiveInit \/ EntryInit
FsmNext == ArchiveNext \/ EntryNext
SpecFsm == FsmInit /\ [][FsmNext]_vars

\* the ranges the running machine has appended so far
RunRanges ==
    IF epc # "idle" THEN e.parsed_ranges
    ELSE IF a.result = "Done" THEN a.archive.parsed_ranges
    ELSE a.parsed_ranges

StartsNeverDecrease(pr) ==
    \A i \in 1..Len(pr) : \A j \in i..Len(pr) : pr[i].start <= pr[j].start

END_RECORD_KINDS ==
    {"end of central directory record", "zip64 end of central directory locator",
     "zip64 end of central directory record"}

----------------------------------------------------------------------------
(* A ParsedRanges journal on its own, next to the journals of the two machines *)

MaxJournal == 3
RangeStarts == {0, 5}
RangeLengths == {0, 3}
RangeNames == {None, Some(<<97>>)}

JournalInit ==
    /\ journal = [ranges |-> ParsedRangesNew, op |-> <<>>]
    /\ apc = "journal"
    /\ fp = [names |-> <<>>, pre |-> 0, tail |-> "plain", delta |-> 0]
    /\ file = <<>>
    /\ a = ArchiveFsmNew(0)
    /\ ent = IdleEntry
    /\ payload = <<>>
    /\ e = <<>>
    /\ io = <<>>
    /\ epc = "idle"
    /\ cnt = NoCount
    /\ lint = <<>>
    /\ det = <<>>

JInsertRange(start, end, filename) ==
    /\ apc = "journal"
    /\ Len(journal.ranges) < MaxJournal
    /\ journal' = [ranges |-> InsertRange(journal.ranges, start, end, "file data",
                                          filename),
                   op |-> [start |-> start, end |-> end, contains |-> "file data",
                           filename |-> filename]]
    /\ UNCHANGED <<avars, evars, cnt, lint, det>>

JInsertOffsetLength(offset, length, filename) ==
    /\ apc = "journal"
    /\ Len(journal.ranges) < MaxJournal
    /\ journal' = [ranges |-> InsertOffsetLength(journal.ranges, offset, length,
                                                 "file data", filename),
                   op |-> [start |-> offset, end |-> offset + length,
                           contains |-> "file data", filename |-> filename]]
    /\ UNCHANGED <<avars, evars, cnt, lint, det>>

JournalNext ==
    \/ \E s \in RangeStarts, l \in RangeLengths, n \in RangeNames :
           JInsertRange(s, s + l, n)
    \/ \E s \in RangeStarts, l \in RangeLengths, n \in RangeNames :
           JInsertOffsetLength(s, l, n)
    \/ FsmNext

SpecJournal == (JournalInit \/ FsmInit) /\ [][JournalNext]_vars

\* the journal being written: the one on its own, or the running machine's
Journal == IF apc = "journal" THEN journal.ranges ELSE RunRanges

\* C20: ParsedRanges is append-only.  Every insert_range and every
\* insert_offset_length call makes the journal one longer and leaves what was
\* in it, and its order, as it was, with no coalescing and no de-duplication;
\* insert_offset_length(o, l, k, d) adds the element insert_range(o..o+l, k, d)
\* adds; and no step of either machine changes or removes a range that is
\* already in its journal.
C20_AppendOnly ==
    [][/\ IsPrefix(Journal, Journal')
       /\ apc = "journal" =>
              /\ Len(Journal') = Len(Journal) + 1
              /\ Journal' = Append(Journal, journal'.op)]_vars

\* the same range is in the journal twice
C20_Witness ==
    /\ apc = "journal"
    /\ Len(journal.ranges) = MaxJournal
    /\ journal.ranges[1] = journal.ranges[2]
    /\ journal.ranges[1].end = journal.ranges[1].start + 3

----------------------------------------------------------------------------
(* The linter (ziplinter/src/lib.rs): parse_bytes on whole archives *)

\* the largest number of entries of an archive
MaxEntries == 2
\* the length of the buffer the entry is read into
ReadBufLen == 32

LintBase == [method |-> METHOD_STORE, data |-> <<7, 9, 11>>, usdelta |-> 0,
             crc |-> "ok", desc |-> "none", aex |-> 0, trailing |-> 0,
             known |-> TRUE, sig |-> "ok"]

\* the entries archives are made of: stored, stored and empty, deflated, with a
\* data descriptor, with a wrong crc, with a broken local header signature,
\* of an unsupported method, AE-x, AE-x with a payload shorter than salt,
\* verification value and authentication code, AE-x without the AE-x extra
\* field in the central directory
LintKinds ==
    { LintBase,
      [LintBase EXCEPT !.data = <<>>],
      [LintBase EXCEPT !.method = METHOD_DEFLATE, !.data = <<7>>],
      [LintBase EXCEPT !.desc = "sig"],
      [LintBase EXCEPT !.crc = "bad"],
      [LintBase EXCEPT !.sig = "bad"],
      [LintBase EXCEPT !.method = 1, !.data = <<7>>],
      [LintBase EXCEPT !.method = METHOD_AEX, !.data = [i \in 1..AexLong |-> i],
                       !.aex = 1],
      [LintBase EXCEPT !.method = METHOD_AEX, !.data = [i \in 1..AexShort |-> i],
                       !.aex = 1],
      [LintBase EXCEPT !.method = METHOD_AEX, !.data = [i \in 1..AexLong |-> i]] }

AexExtraBytes(mode) ==
    LE(AEX_EXTRA_ID, 2) \o LE(AEX_EXTRA_DATA_LENGTH, 2) \o LE(2, 2) \o <<65, 69>>
        \o LE(mode, 1) \o LE(METHOD_DEFLATE, 2)

LintEntryBytes(p) ==
    IF p.sig = "bad" THEN <<0>> \o Tail(EntryBytes(p)) ELSE EntryBytes(p)

LintCdhBytes(p, hoff) ==
    LET en == EntryOf(p)
        extra == IF p.aex = 0 THEN <<>> ELSE AexExtraBytes(p.aex)
    IN CDH_SIGNATURE \o LE(20, 2) \o LE(20, 2)
           \o LE(IF p.desc = "none" THEN 0 ELSE 8, 2) \o LE(en.method, 2)
           \o Zeros(4) \o LE(en.crc32, 4) \o LE(en.compressed_size, 4)
           \o LE(en.uncompressed_size, 4) \o LE(Len(en.name), 2)
           \o LE(Len(extra), 2) \o LE(0, 2) \o Zeros(8) \o LE(hoff, 4)
           \o en.name \o extra

RECURSIVE LintLocals(_, _)
LintLocals(kinds, k) ==
    IF k > Len(kinds) THEN <<>>
    ELSE LintEntryBytes(kinds[k]) \o LintLocals(kinds, k + 1)

RECURSIVE LintDir(_, _, _)
LintDir(kinds, k, hoff) ==
    IF k > Len(kinds) THEN <<>>
    ELSE LintCdhBytes(kinds[k], hoff)
             \o LintDir(kinds, k + 1, hoff + Len(LintEntryBytes(kinds[k])))

\* the archive of the given entries; without its end of central directory
\* record when eocd is FALSE
LintFile(kinds, eocd) ==
    LET locals == LintLocals(kinds, 1)
        dir == LintDir(kinds, 1, 0)
    IN locals \o dir
           \o (IF eocd THEN EocdBytes(Len(kinds), Len(dir), Len(locals), <<>>)
               ELSE <<>>)

LintFiles ==
    {[kinds |-> k, eocd |-> TRUE] : k \in SeqsUpTo(LintKinds, MaxEntries)}
        \cup {[kinds |-> <<>>, eocd |-> FALSE]}

\* read_zip: the archive driver run to its end on the whole file
ReadZip(f) == RunWhole(f, ArchiveFsmNew(Len(f)), RunFuel)

\* the bytes one turn of the loop of LocalHeaderReader::read takes from the
\* cursor f at pos
ReaderBytes(f, m, pos) ==
    IF EntryWantsRead(m)
    THEN ReadAt(f, pos, BufAvailableSpace(BufSpace(m.buffer)))
    ELSE <<>>

\* io::Read::read_to_end on a LocalHeaderReader over the cursor f: read() is
\* called until it returns Ok(0) or an error
RECURSIVE ReadToEnd(_, _, _)
ReadToEnd(f, m, pos) ==
    CHOOSE r \in UNION
        { { CASE AfterEntryProcess(processed, Len(bytes)) = "fill" ->
                     ReadToEnd(f, processed, pos + Len(bytes))
              [] AfterEntryProcess(processed, Len(bytes)) = "noprogress" ->
                     Fail(processed, "NoProgress")
              [] OTHER -> processed
            : processed \in {EntryProcess(IF EntryWantsRead(m)
                                          THEN EntryFill(m, bytes) ELSE m,
                                          ReadBufLen)} }
          : bytes \in {ReaderBytes(f, m, pos)} } : TRUE

\* EntryHandle::local_header: the machine a LocalHeaderReader on the cursor at
\* the entry's header offset ends in, given the journal of the archive
EntryLocalHeader(f, entry, parsed_ranges) ==
    ReadToEnd(Slice(f, entry.header_offset, Len(f)),
              EntryFsmNew(Some(entry), parsed_ranges), 0)

NoLocal == [method |-> 0, crc32 |-> 0, compressed_size |-> 0,
            uncompressed_size |-> 0, header_offset |-> 0, name |-> <<>>,
            extra |-> <<>>, aex |-> None, aex_data |-> None]

\* LocalFileHeader::from_rc_zip on the machine local_header ended in: the
\* Result in FileMetadata::local, or the panic that unwinds through it
LocalFromRcZip(m) ==
    IF m.result = "Panic" THEN [kind |-> "Panic", error |-> "", value |-> NoLocal]
    ELSE IF m.result # "Done" THEN [kind |-> "Err", error |-> m.result, value |-> NoLocal]
    ELSE IF ~m.local_header.some
    THEN [kind |-> "Err", error |-> "Can't get local file header", value |-> NoLocal]
    ELSE LET value == m.local_header.v
             entry == LocalHeaderAsEntry(value)
         IN [kind |-> "Ok", error |-> "",
             value |-> [method |-> value.method, crc32 |-> value.crc32,
                        compressed_size |-> entry.compressed_size,
                        uncompressed_size |-> entry.uncompressed_size,
                        header_offset |-> entry.header_offset,
                        name |-> entry.name, extra |-> value.extra,
                        aex |-> entry.aex, aex_data |-> m.aex_data]]

\* CentralDirectoryFileHeader::from_rc_zip
CentralFromRcZip(value, entry) ==
    [flags |-> value.flags, method |-> value.method, crc32 |-> value.crc32,
     compressed_size |-> value.compressed_size,
     uncompressed_size |-> value.uncompressed_size,
     header_offset |-> value.header_offset, name |-> entry.name,
     extra |-> value.extra, comment |-> entry.comment, aex |-> entry.aex]

NoOutput == [kind |-> "none", contents |-> <<>>, parsed_ranges |-> <<>>, size |-> 0]

LintNew == [pc |-> "open", contents |-> <<>>, parsed_ranges |-> ParsedRangesNew,
            output |-> NoOutput]

\* parse_bytes up to the result of read_zip
LintOpen(l, arch) ==
    IF arch.result = "Done"
    THEN [l EXCEPT !.pc = "walk", !.parsed_ranges = arch.archive.parsed_ranges]
    ELSE [l EXCEPT !.pc = "error",
                   !.output = [NoOutput EXCEPT !.kind = "Error"]]

LintPairOwnJournal(l, arch, i, m) ==
    IF LocalFromRcZip(m).kind = "Panic"
    THEN [l EXCEPT !.pc = "panicked"]
    ELSE [l EXCEPT !.contents =
                       Append(@, [central |-> CentralFromRcZip(
                                                  arch.archive.directory_headers[i],
                                                  arch.archive.entries[i]),
                                  local |-> LocalFromRcZip(m)])]

\* the closure of ZipMetadata::from on the i-th pair of the zipped iterators,
\* m being the machine local_header ended in
LintPair(l, arch, i, m) ==
    IF LocalFromRcZip(m).kind = "Panic"
    THEN [l EXCEPT !.pc = "panicked", !.parsed_ranges = m.parsed_ranges]
    ELSE [l EXCEPT !.contents =
                       Append(@, [central |-> CentralFromRcZip(
                                                  arch.archive.directory_headers[i],
                                                  arch.archive.entries[i]),
                                  local |-> LocalFromRcZip(m)]),
                   !.parsed_ranges = m.parsed_ranges]

LintEntry(l, f, arch) ==
    CHOOSE r \in
        { LintPair(l, arch, Len(l.contents) + 1, m)
          : m \in {EntryLocalHeader(f, arch.archive.entries[Len(l.contents) + 1],
                                    l.parsed_ranges)} } : TRUE

\* the number of pairs the zipped iterators yield
LintPairs(arch) ==
    Min(Len(arch.archive.entries), Len(arch.archive.directory_headers))

\* ZipMetadata::from after collect()
LintCollect(l, arch) ==
    [l EXCEPT !.pc = "done",
              !.output = [kind |-> "ZipMetadata", contents |-> l.contents,
                          parsed_ranges |-> l.parsed_ranges,
                          size |-> arch.archive.size]]

LintInit ==
    /\ fp \in LintFiles
    /\ file = LintFile(fp.kinds, fp.eocd)
    /\ a = ArchiveFsmNew(Len(file))
    /\ apc = "idle"
    /\ lint = LintNew
    /\ det = <<>>
    /\ ent = IdleEntry
    /\ payload = <<>>
    /\ e = <<>>
    /\ io = <<>>
    /\ epc = "idle"
    /\ cnt = NoCount
    /\ journal = <<>>

LReadZip ==
    /\ lint # <<>>
    /\ lint.pc = "open"
    /\ a' = ReadZip(file)
    /\ lint' = LintOpen(lint, a')
    /\ UNCHANGED <<fp, file, apc, evars, cnt, journal, det>>

LEntry ==
    /\ lint # <<>>
    /\ lint.pc = "walk"
    /\ Len(lint.contents) < LintPairs(a)
    /\ lint' = LintEntry(lint, file, a)
    /\ UNCHANGED <<avars, evars, cnt, journal, det>>

LCollect ==
    /\ lint # <<>>
    /\ lint.pc = "walk"
    /\ Len(lint.contents) = LintPairs(a)
    /\ lint' = LintCollect(lint, a)
    /\ UNCHANGED <<avars, evars, cnt, journal, det>>

LintNext == LReadZip \/ LEntry \/ LCollect

SpecLint == LintInit /\ [][LintNext]_vars

\* ZipMetadata::from: the closure on every pair, then the output
RECURSIVE LintWalk(_, _, _)
LintWalk(l, f, arch) ==
    IF l.pc # "walk" THEN l
    ELSE IF Len(l.contents) = LintPairs(arch) THEN LintCollect(l, arch)
    ELSE CHOOSE r \in {LintWalk(n, f, arch) : n \in {LintEntry(l, f, arch)}} : TRUE

\* parse_bytes
ParseBytes(f) ==
    CHOOSE r \in {LintWalk(LintOpen(LintNew, arch), f, arch) : arch \in {ReadZip(f)}} :
        TRUE

----------------------------------------------------------------------------
(* Claims about the linter *)

\* an entry as long as p, with a central directory header of the same offset,
\* whose local parse succeeds
Sibling(p) ==
    IF p.method = METHOD_AEX /\ Len(p.data) = AexShort
    THEN [p EXCEPT !.method = METHOD_STORE, !.aex = 0]
    ELSE [p EXCEPT !.sig = "ok", !.crc = "ok",
                   !.method = IF @ = 1 THEN METHOD_DEFLATE ELSE @,
                   !.aex = IF p.method = METHOD_AEX THEN 1 ELSE @]

\* the local parse of the i-th entry of the archive fails
LocalFails(i) ==
    EntryLocalHeader(file, a.archive.entries[i], ParsedRangesNew).result # "Done"

\* the contents of the output for the archive whose i-th entry is replaced by
\* its sibling
SiblingContents(i) ==
    ParseBytes(LintFile([fp.kinds EXCEPT ![i] = Sibling(@)], TRUE)).output.contents

\* C17: the output ZipMetadata::from builds has one element of `contents` per
\* central directory entry, in central-directory order; when the local parse
\* of entry i fails, element i carries the error in `local`, its `central` is
\* the one of its central directory header, and every other element is the one
\* the walk produces when entry i parses: no failure of one entry aborts the
\* walk or changes what it does with the others.
C17_ErrorsStayPerEntry ==
    (lint # <<>> /\ lint.pc \in {"done", "panicked"}) =>
        /\ lint.pc = "done"
        /\ LET c == lint.output.contents
               dh == a.archive.directory_headers
           IN /\ Len(c) = Len(dh)
              /\ \A i \in 1..Len(dh) :
                     /\ c[i].central.header_offset = dh[i].header_offset
                     /\ LocalFails(i) =>
                            /\ c[i].local.kind = "Err"
                            /\ c[i].central = CentralFromRcZip(dh[i], a.archive.entries[i])
                            /\ \A j \in 1..Len(dh) :
                                   j # i => c[j] = SiblingContents(i)[j]

\* the number of ranges of the given kind
CountKind(pr, kind) == Len(SelectSeq(pr, LAMBDA r : r.contains = kind))

\* every entry of the archive is without data descriptor and was parsed
AllEntriesParsed ==
    /\ lint # <<>>
    /\ lint.pc = "done"
    /\ \A i \in 1..Len(fp.kinds) : fp.kinds[i].desc = "none"
    /\ Len(lint.output.contents) = Len(fp.kinds)
    /\ \A i \in 1..Len(fp.kinds) : lint.output.contents[i].local.kind = "Ok"

\* C19: for an archive of n entries without ZIP64 records and without data
\* descriptors whose entries all parse, parsed_ranges of the output holds one
\* `end of central directory record` range, n `central directory header`
\* ranges, n `local file header` ranges and n `file data` ranges; the n + 1
\* ranges of the archive come first, then for each entry in central-directory
\* order its local file header range and its file data range.
C19_RangesPerKindInWalkOrder ==
    AllEntriesParsed =>
        LET pr == lint.output.parsed_ranges
            dh == a.archive.directory_headers
            n == Len(fp.kinds)
        IN /\ CountKind(pr, "end of central directory record") = 1
           /\ CountKind(pr, CDH_KIND) = n
           /\ CountKind(pr, "local file header") = n
           /\ CountKind(pr, "file data") = n
           /\ Len(pr) >= 3 * n + 1
           /\ \A k \in 1..(n + 1) :
                  pr[k].contains \in {"end of central directory record", CDH_KIND}
           /\ \A k \in 1..n :
                  /\ pr[n + 2 * k].contains = "local file header"
                  /\ pr[n + 2 * k].start = dh[k].header_offset
                  /\ pr[n + 2 * k + 1].contains = "file data"
                  /\ pr[n + 2 * k + 1].start = pr[n + 2 * k].end

\* an archive of as many entries as the bound allows, of different methods and
\* payloads, all parsed
C19_Witness ==
    /\ AllEntriesParsed
    /\ Len(fp.kinds) = MaxEntries
    /\ fp.kinds[1].method # fp.kinds[2].method
    /\ Len(fp.kinds[1].data) # Len(fp.kinds[2].data)

----------------------------------------------------------------------------
(* Claims about the ranges and the turns of EntryFsm *)

\* the size of the file the entry is read from: the entry starts at its header
\* offset and the reader's bytes run to the end of the file
EntryFileSize == e.entry.v.header_offset + Len(payload)

\* C21: when the entry is parsed (Done), every range the machine inserted
\* (local file header, file data, data descriptor) is a non-empty interval
\* inside the file: 0 <= start < end <= size, whatever the compressed size.
C21_EntryRangesNonEmptyInsideFile ==
    (epc # "idle" /\ e.result = "Done") =>
        \A i \in 1..Len(e.parsed_ranges) :
            LET r == e.parsed_ranges[i] IN
            /\ 0 <= r.start
            /\ r.start < r.end
            /\ r.end <= EntryFileSize

----------------------------------------------------------------------------
(* Claims about the reads and the states of ArchiveFsm *)

\* the file offset at which the record of the machine's state starts
BaseOffset(m) ==
    CASE m.state = "ReadEocd" -> m.size - m.haystack_size
      [] m.state = "ReadEocd64Locator" -> m.eocdr.offset - EOCD64_LOCATOR_LENGTH
      [] m.state = "ReadEocd64" -> m.eocdr64_offset
      [] OTHER -> DirectoryOffset(m.eocd)

\* what the buffer holds is the end of the file bytes from the base offset of
\* the state up to the offset wants_read() returns
BufferEndsAtWantsRead(m) ==
    /\ WantsRead(m) = BaseOffset(m) + m.buffer.read_bytes
    /\ Len(m.buffer.data) <= m.buffer.read_bytes
    /\ m.buffer.data = Slice(file, WantsRead(m) - Len(m.buffer.data), WantsRead(m))

\* a fill moves wants_read() on by the bytes it took, within the same state
FillAdvancesWantsRead ==
    apc = "fill" =>
        /\ a'.state = a.state
        /\ a'.buffer.read_bytes >= a.buffer.read_bytes
        /\ WantsRead(a') = WantsRead(a) + (a'.buffer.read_bytes - a.buffer.read_bytes)

\* process() leaves wants_read() alone while the state stays, and a new state
\* starts at its base offset with the counter at zero
ProcessKeepsOrRestartsWantsRead ==
    (apc = "process" /\ a'.result = "Continue") =>
        IF a'.state = a.state THEN WantsRead(a') = WantsRead(a)
        ELSE a'.buffer.read_bytes = 0 /\ WantsRead(a') = BaseOffset(a')

\* C22: in every state of ArchiveFsm wants_read() is the base offset of the
\* state (size - haystack_size, eocdr.offset - 20, eocdr64_offset,
\* eocd.directory_offset()) plus the number of bytes filled since the state was
\* entered: the reads of one state cover consecutive file positions from the
\* base offset on, and the count starts from zero in each new state.
C22_WantsReadIsBasePlusFilled ==
    /\ [](a.result = "Continue" => BufferEndsAtWantsRead(a))
    /\ [][FillAdvancesWantsRead /\ ProcessKeepsOrRestartsWantsRead]_vars

\* the central directory is being read in several fills after the EOCD and a
\* zip64 locator and record were read
C22_Witness ==
    /\ a.state = "ReadCentralDirectory"
    /\ apc = "fill"
    /\ a.eocd.dir64.some
    /\ a.buffer.read_bytes > SmallFill
    /\ Len(a.directory_headers) > 0

\* the file holds a valid EOCD record: the signature at an offset from which
\* the fixed part fits and the comment length reaches the end of the file
FileHasEocd == \E i \in 0..(Len(file) - EOCD_FIXED_LENGTH) : EocdrMatchesAt(file, i)

\* C23: in ReadEocd process() returns Continue, with the state, the buffer and
\* the journal as they were, as long as fewer than haystack_size bytes were
\* filled; with the whole haystack in the buffer and no valid EOCD record in
\* it, it returns DirectoryEndSignatureNotFound (so it does for a file of size
\* 0 or of fewer than 22 bytes).
C23_ReadEocdWaitsThenFails ==
    [][(apc = "process" /\ a.state = "ReadEocd") =>
           IF a.buffer.read_bytes < a.haystack_size
           THEN a' = [a EXCEPT !.result = "Continue"]
           ELSE /\ ~FileHasEocd => a'.result = "DirectoryEndSignatureNotFound"
                /\ Len(file) < EOCD_FIXED_LENGTH =>
                       a'.result = "DirectoryEndSignatureNotFound"]_vars

\* the empty file was refused
C23_Witness ==
    /\ apc = "end"
    /\ Len(file) = 0
    /\ a.result = "DirectoryEndSignatureNotFound"

\* C24: once the EOCD record is found the machine enters ReadEocd64Locator
\* if and only if the record's file offset is at least 20; with an offset
\* below 20 it goes to ReadCentralDirectory without a zip64 record; and no
\* read is requested at a negative offset.
C24_LocatorProbedIffRoom ==
    /\ [](a.result = "Continue" => WantsRead(a) >= 0)
    /\ [][/\ (apc = "process" /\ a.state = "ReadEocd" /\ a'.state # "ReadEocd") =>
               /\ a'.state = "ReadEocd64Locator" <=>
                      a'.eocdr.offset >= EOCD64_LOCATOR_LENGTH
               /\ a'.eocdr.offset < EOCD64_LOCATOR_LENGTH =>
                      /\ a'.state = "ReadCentralDirectory"
                      /\ ~a'.eocd.dir64.some
          /\ (a'.state = "ReadEocd64Locator" /\ a.state # "ReadEocd64Locator") =>
                 a.state = "ReadEocd"]_vars

\* the EOCD record was found one byte too early in the file for a locator
C24_Witness ==
    /\ a.state = "ReadCentralDirectory"
    /\ a.result = "Continue"
    /\ a.eocdr.offset = EOCD64_LOCATOR_LENGTH - 1
    /\ ~a.eocd.dir64.some

\* C25: the archive machine's state only moves forward along ReadEocd,
\* ReadEocd64Locator, ReadEocd64, ReadCentralDirectory, Done (states may be
\* skipped, none is revisited); ReadEocd64 is entered only from
\* ReadEocd64Locator on a successfully parsed locator; and a machine handed
\* back with Continue is never in the Transitioning state.
StateRank(m) ==
    CASE m.result = "Done" -> 4
      [] m.state = "ReadEocd" -> 0
      [] m.state = "ReadEocd64Locator" -> 1
      [] m.state = "ReadEocd64" -> 2
      [] m.state = "ReadCentralDirectory" -> 3
      [] OTHER -> -1

C25_StateMovesForward ==
    /\ [](a.result = "Continue" =>
              a.state \in {"ReadEocd", "ReadEocd64Locator", "ReadEocd64",
                           "ReadCentralDirectory"})
    /\ [][/\ a'.result \in {"Continue", "Done"} => StateRank(a') >= StateRank(a)
          /\ a'.result = "Done" => a.state = "ReadCentralDirectory"
          /\ (a'.state = "ReadEocd64" /\ a.state # "ReadEocd64") =>
                 /\ a.state = "ReadEocd64Locator"
                 /\ ParseEocd64Locator(a.buffer.data).kind
                        \notin {"Incomplete", "Backtrack", "Cut"}]_vars

\* a run that went through every state: Done with a zip64 record
C25_Witness ==
    /\ a.result = "Done"
    /\ a.eocd.dir64.some
    /\ Len(a.archive.entries) > 0

----------------------------------------------------------------------------
(* Claims about encoding detection *)

\* the names and comments of the non-UTF-8 headers, in the order of the walk
NonUtf8Slices(hs) ==
    LET nz == SelectSeq(hs, IsNonUtf8) IN
    [i \in 1..(2 * Len(nz)) |->
        IF i % 2 = 1 THEN nz[(i + 1) \div 2].name ELSE nz[i \div 2].comment]

RECURSIVE SlicesLen(_, _)
SlicesLen(sl, n) == IF n = 0 THEN 0 ELSE SlicesLen(sl, n - 1) + Len(sl[n])

\* the slices the detector was given: up to and including the first one with
\* which the running total reaches MAX_FEED
FedSlices(hs) ==
    LET sl == NonUtf8Slices(hs)
        reached == {n \in 1..Len(sl) : SlicesLen(sl, n) >= MAX_FEED}
        last == IF reached = {} THEN Len(sl)
                ELSE CHOOSE n \in reached : \A k \in reached : n <= k
    IN SubSeq(sl, 1, last)

\* some byte of the slices lies in 0xB0..=0xDF
SomeByteInKanaRange(sl) ==
    \E i \in 1..Len(sl) : \E j \in 1..Len(sl[i]) : 176 <= sl[i][j] /\ sl[i][j] <= 223

EncodingChoice(hs, guess, suspicious) ==
    IF \A i \in 1..Len(hs) : ~IsNonUtf8(hs[i]) THEN "Utf8"
    ELSE IF guess = "SHIFT_JIS" THEN (IF suspicious THEN "ShiftJis" ELSE "Cp437")
    ELSE IF guess = "UTF_8" THEN "Utf8"
    ELSE "Cp437"

\* C26 (as stated): the encoding is Utf8 without non-UTF-8 headers, otherwise
\* ShiftJis when the detector guesses Shift-JIS and some byte in 0xB0..=0xDF
\* occurs in the names or comments of the non-UTF-8 headers, Cp437 when it
\* guesses Shift-JIS and no such byte occurs, Utf8 when it guesses UTF-8, and
\* Cp437 otherwise.
C26_EncodingByAllBytes ==
    (det # <<>> /\ det.encoding # "none") =>
        det.encoding =
            EncodingChoice(det.headers, det.guess,
                SomeByteInKanaRange(NonUtf8Slices(det.headers)))

\* C26 (amended): the same choice, where the bytes in 0xB0..=0xDF that count
\* are those of the names and comments given to the detector, which stops
\* being fed after the slice with which the total reaches 4096 bytes.
C26_EncodingByFedBytes ==
    (det # <<>> /\ det.encoding # "none") =>
        det.encoding =
            EncodingChoice(det.headers, det.guess,
                SomeByteInKanaRange(FedSlices(det.headers)))

\* a Shift-JIS guess on headers whose only byte in 0xB0..=0xDF comes after
\* the feed limit: the choice is Cp437
C26_Witness ==
    /\ det # <<>>
    /\ det.encoding = "Cp437"
    /\ det.guess = "SHIFT_JIS"
    /\ SomeByteInKanaRange(NonUtf8Slices(det.headers))
    /\ ~SomeByteInKanaRange(FedSlices(det.headers))

\* C27: the total number of name and comment bytes fed to the detector (and
\* scanned for bytes in 0xB0..=0xDF) during encoding detection never exceeds
\* 4096.
C27_FedAtMostMaxFeed ==
    (det # <<>> /\ det.encoding # "none") => det.fed.total_fed <= MAX_FEED

----------------------------------------------------------------------------
(* Claims about the ReadData state of EntryFsm *)

\* the machine at the point where a process() call reaches ReadData: as it
\* is when the call starts there, after the local header when the call
\* starts in ReadLocalHeader
AtReadData(m) == IF m.state = "ReadLocalHeader" THEN InternalProcessLocalHeader(m) ELSE m

ReachesReadData ==
    /\ epc = "process"
    /\ AtReadData(e).state = "ReadData"
    /\ AtReadData(e).result = "Continue"

\* C28: a ReadData turn that calls the decompressor passes a slice of length
\* min(buffered bytes, compressed_size - compressed_bytes), with
\* has_more_input = No if and only if compressed_bytes plus that length is
\* compressed_size; a turn with an empty buffer and compressed_bytes below
\* compressed_size returns Continue with outcome {0, 0} and does not call
\* the decompressor.
C28_SliceClampedAndLastFlagged ==
    [][ReachesReadData =>
         LET m == AtReadData(e)
             buffered == Len(m.buffer.data)
             budget == m.entry.v.compressed_size - m.compressed_bytes
         IN
         IF buffered = 0 /\ budget > 0
         THEN /\ ~e'.call.called
              /\ e'.result = "Continue"
              /\ e'.outcome = [bytes_read |-> 0, bytes_written |-> 0]
              /\ e'.decompressor = m.decompressor
              /\ e'.state = "ReadData"
         ELSE /\ e'.call.called
              /\ e'.call.in_len = IF buffered < budget THEN buffered ELSE budget
              /\ e'.call.has_more_input = "No" <=>
                     m.compressed_bytes + e'.call.in_len = m.entry.v.compressed_size]_vars

\* a turn that handed over less than what was buffered, as the last input
C28_Witness ==
    /\ e # <<>>
    /\ e.call.called
    /\ e.call.has_more_input = "No"
    /\ e.call.in_len > 0
    /\ e.outcome.bytes_read = e.call.in_len
    /\ Len(e.buffer.data) > 0
    /\ e.result = "Continue"

\* the ranges of one kind in a journal
RangesOf(pr, contains) == SelectSeq(pr, LAMBDA r : r.contains = contains)

\* C29: EntryFsm leaves ReadData exactly on a turn where the decompressor
\* wrote 0 bytes and compressed_bytes equals entry.compressed_size; on that
\* turn it records one `file data` range from data_start to data_start +
\* compressed_size, and goes to ReadDataDescriptor if and only if the local
\* header's bit 3 is set, otherwise straight to Validate without a
\* descriptor; in Validate a descriptor is present if and only if
\* ReadDataDescriptor was visited.
C29_LeavesReadDataWhenDrained ==
    /\ [](/\ e.state = "ReadDataDescriptor" => HasDataDescriptor(e.local_header.v)
          /\ e.state = "Validate" =>
                 /\ e.descriptor.some <=> HasDataDescriptor(e.local_header.v)
                 /\ e.descriptor.some <=>
                        Len(RangesOf(e.parsed_ranges, "data descriptor")) = 1
          /\ e.state \in {"ReadLocalHeader", "ReadData"} =>
                 /\ RangesOf(e.parsed_ranges, "file data") = <<>>
                 /\ RangesOf(e.parsed_ranges, "data descriptor") = <<>>)
    /\ [][ReachesReadData =>
            LET m == AtReadData(e)
                size == m.entry.v.compressed_size
            IN
            /\ e'.state # "ReadData" <=>
                   /\ e'.call.called
                   /\ e'.call.err = ""
                   /\ e'.call.bytes_written = 0
                   /\ e'.compressed_bytes = size
            /\ e'.state # "ReadData" =>
                   /\ RangesOf(e'.parsed_ranges, "file data") =
                          <<[start |-> m.data_start, end |-> m.data_start + size,
                             contains |-> "file data",
                             filename |-> Some(m.entry.v.name)]>>
                   /\ IF HasDataDescriptor(m.local_header.v)
                      THEN \/ e'.state = "ReadDataDescriptor"
                           \/ e'.state = "Validate" /\ e'.descriptor.some
                      ELSE e'.state = "Validate" /\ ~e'.descriptor.some]_vars

\* an entry with the bit-3 flag that went through ReadDataDescriptor to the
\* end of Validate
C29_Witness ==
    /\ e # <<>>
    /\ e.state = "Validate"
    /\ e.result = "Done"
    /\ e.descriptor.some
    /\ e.entry.v.compressed_size > 0
    /\ Len(RangesOf(e.parsed_ranges, "file data")) = 1

\* a ReadData turn on which the decompressor was fed nothing, read nothing
\* and wrote nothing
IdleTurn ==
    /\ ReachesReadData
    /\ e'.call.called
    /\ e'.call.err = ""
    /\ e'.call.in_len = 0
    /\ e'.call.bytes_read = 0
    /\ e'.call.bytes_written = 0

\* C30 (as stated): every ReadData turn in which the decompressor wrote 0
\* bytes, read 0 bytes and was fed 0 bytes makes process() return the
\* UnexpectedEof error.
C30_IdleTurnIsUnexpectedEof ==
    [][IdleTurn => e'.result = "UnexpectedEof"]_vars

\* C30 (amended): a ReadData turn in which the decompressor wrote 0 bytes,
\* read 0 bytes and was fed 0 bytes only happens once compressed_bytes has
\* reached entry.compressed_size; it ends ReadData (the machine goes on to
\* the data descriptor or to validation), and process() never returns the
\* UnexpectedEof error.
C30_IdleTurnEndsReadData ==
    /\ [](e.result # "UnexpectedEof")
    /\ [][IdleTurn =>
            /\ AtReadData(e).compressed_bytes = AtReadData(e).entry.v.compressed_size
            /\ e'.state \in {"ReadDataDescriptor", "Validate"}
            /\ e'.result # "UnexpectedEof"]_vars

\* after such a turn: nothing fed, read or written, and ReadData is over
C30_Witness ==
    /\ e # <<>>
    /\ e.call.called
    /\ e.call.err = ""
    /\ e.call.in_len = 0
    /\ e.call.bytes_read = 0
    /\ e.call.bytes_written = 0
    /\ e.state \in {"ReadDataDescriptor", "Validate"}
    /\ e.entry.v.compressed_size > 0

\* C31: accounting in ReadData.  compressed_bytes is the number of bytes
\* consumed from the buffer in ReadData (every byte the driver filled is in
\* the local header, consumed as payload, or still buffered);
\* uncompressed_bytes is the number of bytes handed to the caller in
\* Continue outcomes; the hasher has been fed exactly those bytes in order;
\* so the metrics in ReadDataDescriptor and Validate describe what the caller
\* received.
C31_ReadDataAccounting ==
    /\ (epc # "idle" /\ e.state = "ReadData") =>
           /\ io.pos = (e.data_start - e.entry.v.header_offset)
                           + e.compressed_bytes + Len(e.buffer.data)
           /\ e.uncompressed_bytes = Len(io.emitted)
           /\ e.hasher = HasherUpdate(HasherNew, io.emitted)
    /\ (epc # "idle" /\ e.state \in {"ReadDataDescriptor", "Validate"}) =>
           /\ e.metrics.uncompressed_size = Len(io.emitted)
           /\ e.metrics.crc32 = Crc(io.emitted)
           /\ e.compressed_bytes = e.entry.v.compressed_size

\* a deflated payload handed out in several outcomes, then validated
C31_Witness ==
    /\ epc # "idle"
    /\ e.state = "Validate"
    /\ e.result = "Done"
    /\ e.decompressor.kind = "Stream"
    /\ Len(io.emitted) > OutSmall
    /\ e.metrics.uncompressed_size = Len(io.emitted)

----------------------------------------------------------------------------
(* The lock around the shared journal: Rc<Mutex<ParsedRanges>>.  Every use  *)
(* is one statement, `journal.try_lock().unwrap().insert..(..)` or           *)
(* `.clone()`: the guard is a temporary that lives to the end of it.         *)

\* the statements of ArchiveFsm::process and of EntryFsm that lock the journal
ArchiveSites == {"end of central directory record",
                 "zip64 end of central directory locator",
                 "zip64 end of central directory record",
                 "central directory header"}
EntrySites == {"local file header", "file data", "data descriptor"}

\* the journal behind its mutex: guards is the number of live guards, pc the
\* position in the statement being run, phase and left the position of
\* ZipMetadata::from in its walk (the archive parse, the entries, the clone),
\* site the statement, copy what the clone got, failed a try_lock that
\* returned Err
LockInit ==
    /\ journal = [ranges |-> ParsedRangesNew, guards |-> 0, pc |-> "idle",
                  phase |-> "archive", left |-> 0, site |-> "", copy |-> <<>>,
                  failed |-> FALSE]
    /\ apc = "lock"
    /\ fp = [names |-> <<>>, pre |-> 0, tail |-> "plain", delta |-> 0]
    /\ file = <<>>
    /\ a = ArchiveFsmNew(0)
    /\ ent = IdleEntry
    /\ payload = <<>>
    /\ e = <<>>
    /\ io = <<>>
    /\ epc = "idle"
    /\ cnt = NoCount
    /\ lint = <<>>
    /\ det = <<>>

\* the sites the running phase can be at
PhaseSites(phase) ==
    CASE phase = "archive" -> ArchiveSites
      [] phase = "entry" -> EntrySites
      [] phase = "collect" -> {"clone"}
      [] OTHER -> {}

\* try_lock().unwrap(): a guard, or the panic of unwrap when one is alive
TryLock(site) ==
    /\ apc = "lock"
    /\ journal.pc = "idle"
    /\ site \in PhaseSites(journal.phase)
    /\ Len(journal.ranges) < MaxJournal \/ site = "clone"
    /\ journal' = IF journal.guards = 0
                  THEN [journal EXCEPT !.guards = 1, !.pc = "held", !.site = site]
                  ELSE [journal EXCEPT !.failed = TRUE, !.pc = "panicked", !.site = site]
    /\ UNCHANGED <<avars, evars, cnt, lint, det>>

\* the call made on the guard: an insert, or the clone of the journal
OnGuard ==
    /\ apc = "lock"
    /\ journal.pc = "held"
    /\ journal' =
           IF journal.site = "clone"
           THEN [journal EXCEPT !.copy = journal.ranges, !.pc = "used"]
           ELSE [journal EXCEPT
                    !.ranges = InsertOffsetLength(@, Len(@), 1, journal.site, None),
                    !.pc = "used"]
    /\ UNCHANGED <<avars, evars, cnt, lint, det>>

\* (mutant: the guard outlives its statement)
DropGuardLate(j) == j.guards

\* the end of the statement: the temporary guard is dropped
DropGuard(j) == j.guards - 1

EndStatement ==
    /\ apc = "lock"
    /\ journal.pc = "used"
    /\ journal' = [journal EXCEPT !.guards = DropGuard(journal),
                                  !.pc = IF journal.site = "clone" THEN "returned"
                                         ELSE "idle"]
    /\ UNCHANGED <<avars, evars, cnt, lint, det>>

\* between statements: the archive parse ends and the walk over `left`
\* entries starts; an entry's reader is dropped and the next one is built
\* with a clone of the handle; after the last entry the journal is cloned
NextPhase ==
    /\ apc = "lock"
    /\ journal.pc = "idle"
    /\ \/ /\ journal.phase = "archive"
          /\ \E n \in 0..MaxEntries :
                journal' = [journal EXCEPT !.left = n,
                                !.phase = IF n = 0 THEN "collect" ELSE "entry"]
       \/ /\ journal.phase = "entry"
          /\ journal' = [journal EXCEPT !.left = @ - 1,
                              !.phase = IF journal.left = 1 THEN "collect" ELSE "entry"]
    /\ UNCHANGED <<avars, evars, cnt, lint, det>>

LockNext ==
    \/ \E site \in ArchiveSites \cup EntrySites \cup {"clone"} : TryLock(site)
    \/ OnGuard
    \/ EndStatement
    \/ NextPhase

SpecLock == LockInit /\ [][LockNext]_vars

\* C32: insertions into the shared journal are serialized.  Wherever
\* ArchiveFsm, EntryFsm or ZipMetadata::from calls try_lock() no other guard
\* is alive, so try_lock().unwrap() never fails, for any archive parse
\* followed by entry parses on the same handle.
C32_LockNeverContended ==
    /\ ~journal.failed
    /\ journal.guards \in {0, 1}
    /\ journal.pc \in {"idle", "returned"} => journal.guards = 0

\* the clone at the end of the walk saw ranges of the archive and of an entry
C32_Witness ==
    /\ apc = "lock"
    /\ journal.pc = "returned"
    /\ \E i \in 1..Len(journal.copy) : journal.copy[i].contains \in ArchiveSites
    /\ \E i \in 1..Len(journal.copy) : journal.copy[i].contains \in EntrySites

----------------------------------------------------------------------------
(* LocalHeaderReader (rc-zip-sync/src/local_header_reader.rs): read calls   *)

\* the entries a reader is built for: LocalHeaderReader::new always hands the
\* entry to EntryFsm::new
ReaderParams == {p \in EntryParams : p.known /\ p.usdelta = 0 /\ p.crc # "zero"}

\* the lengths of the buf of a read call
BufLens == OutSizes \cup {0}

\* how many bytes a truncated underlying reader lacks
CutLen == 1

NoReturn == [kind |-> "none", n |-> 0, error |-> ""]

\* LocalHeaderReader::new.  io.fsm tells whether self.fsm is Some, io.ret is
\* what the last read call returned, io.buf_len the length of its buf
ReaderInit ==
    /\ fp \in ReaderParams
    /\ ent = EntryOf(fp)
    /\ \E cut \in {0, CutLen} :
          /\ cut > 0 => fp.trailing = 0 /\ fp.crc = "ok"
          /\ payload = SubSeq(EntryBytes(fp), 1, Len(EntryBytes(fp)) - cut)
    /\ e = EntryFsmNew(Some(ent), ParsedRangesNew)
    /\ io = [pos |-> 0, filled_bytes |-> 0, emitted |-> <<>>, fsm |-> TRUE,
             buf_len |-> 0, ret |-> NoReturn]
    /\ epc = "ready"
    /\ file = <<>>
    /\ a = <<>>
    /\ apc = "idle"
    /\ cnt = NoCount
    /\ journal = <<>>
    /\ lint = <<>>
    /\ det = <<>>

\* a call of read(buf)
RCall(buf_len) ==
    /\ epc = "ready"
    /\ io' = [io EXCEPT !.buf_len = buf_len, !.ret = NoReturn]
    /\ epc' = "loop"
    /\ UNCHANGED <<fp, file, a, apc, ent, payload, e, cnt, journal, lint, det>>

\* (mutant: a turn without progress is reported as the end of the stream)
ReadOutcomeCleanEof(m, filled_bytes) ==
    CASE m.result = "Panic" ->
            [fsm |-> FALSE, ret |-> [kind |-> "Panic", n |-> 0, error |-> ""]]
      [] m.result = "Done" ->
            [fsm |-> FALSE, ret |-> [kind |-> "Ok", n |-> 0, error |-> ""]]
      [] m.result # "Continue" ->
            [fsm |-> FALSE, ret |-> [kind |-> "Err", n |-> 0, error |-> m.result]]
      [] m.outcome.bytes_written > 0 ->
            [fsm |-> TRUE,
             ret |-> [kind |-> "Ok", n |-> m.outcome.bytes_written, error |-> ""]]
      [] filled_bytes > 0 \/ m.outcome.bytes_read > 0 ->
            [fsm |-> TRUE, ret |-> NoReturn]
      [] OTHER ->
            [fsm |-> TRUE, ret |-> [kind |-> "Ok", n |-> 0, error |-> ""]]

\* what the match on fsm.process(buf) makes read do: the value of self.fsm
\* afterwards, what read returns (kind "none": the loop goes on)
ReadOutcome(m, filled_bytes) ==
    CASE m.result = "Panic" ->
            [fsm |-> FALSE, ret |-> [kind |-> "Panic", n |-> 0, error |-> ""]]
      [] m.result = "Done" ->
            [fsm |-> FALSE, ret |-> [kind |-> "Ok", n |-> 0, error |-> ""]]
      [] m.result # "Continue" ->
            [fsm |-> FALSE, ret |-> [kind |-> "Err", n |-> 0, error |-> m.result]]
      [] m.outcome.bytes_written > 0 ->
            [fsm |-> TRUE,
             ret |-> [kind |-> "Ok", n |-> m.outcome.bytes_written, error |-> ""]]
      [] filled_bytes > 0 \/ m.outcome.bytes_read > 0 ->
            [fsm |-> TRUE, ret |-> NoReturn]
      [] OTHER ->
            [fsm |-> TRUE,
             ret |-> [kind |-> "Err", n |-> 0, error |-> "entry reader: no progress"]]

\* one turn of the loop of read: take the machine (self.fsm is None until
\* the Continue arm puts it back), fill, process, match.
\* The underlying reader hands over at most n bytes (all that fit when n = 0)
RIterate(n) ==
    /\ epc = "loop"
    /\ IF ~io.fsm
       THEN /\ io' = [io EXCEPT !.ret = [kind |-> "Panic", n |-> 0,
                                         error |-> "unreachable"]]
            /\ epc' = "panicked"
            /\ e' = e
       ELSE LET room == BufAvailableSpace(BufSpace(e.buffer))
                bytes == IF EntryWantsRead(e)
                         THEN ReadAt(payload, io.pos, IF n = 0 THEN room ELSE Min(n, room))
                         ELSE <<>>
                filled == IF EntryWantsRead(e) THEN EntryFill(e, bytes) ELSE e
            IN /\ e' = EntryProcess(filled, io.buf_len)
               /\ LET o == ReadOutcome(e', Len(bytes)) IN
                  /\ io' = [io EXCEPT !.pos = @ + Len(bytes),
                                      !.filled_bytes = Len(bytes),
                                      !.emitted = @ \o e'.out,
                                      !.fsm = o.fsm,
                                      !.ret = o.ret]
                  /\ epc' = CASE o.ret.kind = "none" -> "loop"
                              [] o.ret.kind = "Panic" -> "panicked"
                              [] OTHER -> "ready"
    /\ UNCHANGED <<fp, file, a, apc, ent, payload, cnt, journal, lint, det>>

ReaderNext ==
    \/ \E buf_len \in BufLens : RCall(buf_len)
    \/ \E n \in EntryFillSizes \cup {0} : RIterate(n)

SpecReader == ReaderInit /\ [][ReaderNext]_vars

----------------------------------------------------------------------------
(* Claims about LocalHeaderReader::read *)

Truncated == Len(payload) < Len(EntryBytes(fp))

Returned(kind) == epc = "ready" /\ io.ret.kind = kind

\* C33: read called with a non-empty buf returns Ok(0) only when the machine
\* has reached Done, with all data handed out and validated; when the
\* underlying reader is exhausted while the machine still needs input (a turn
\* with nothing filled, nothing read, nothing written) read returns the
\* `entry reader: no progress` error, so a truncated entry is never reported
\* as a clean end; and Ok(n) with n > 0 means that exactly n bytes were
\* written to buf.
C33_CleanEofOnlyWhenDone ==
    /\ [](/\ (Returned("Ok") /\ io.ret.n = 0 /\ io.buf_len > 0) =>
                 /\ e.result = "Done"
                 /\ e.state = "Validate"
                 /\ e.metrics.uncompressed_size = Len(io.emitted)
                 /\ e.metrics.crc32 = Crc(io.emitted)
                 /\ ~Truncated
          /\ (Returned("Ok") /\ io.ret.n > 0) =>
                 /\ io.ret.n = Len(e.out)
                 /\ io.ret.n <= io.buf_len)
    /\ [][(epc = "loop" /\ io.fsm) =>
            /\ (/\ e'.result = "Continue"
                /\ io'.filled_bytes = 0
                /\ e'.outcome = [bytes_read |-> 0, bytes_written |-> 0]) =>
                   io'.ret = [kind |-> "Err", n |-> 0,
                              error |-> "entry reader: no progress"]
            /\ (io'.ret.kind = "Ok" /\ io'.ret.n > 0) =>
                   /\ Len(io'.emitted) = Len(io.emitted) + io'.ret.n
                   /\ SubSeq(io'.emitted, 1, Len(io.emitted)) = io.emitted]_vars

\* a truncated entry, read with a non-empty buf: some bytes came out, then
\* the reader ran dry and read returned the no-progress error
C33_Witness ==
    /\ Returned("Err")
    /\ io.ret.error = "entry reader: no progress"
    /\ Truncated
    /\ io.buf_len > 0
    /\ io.pos = Len(payload)
    /\ Len(io.emitted) > 0

\* what is left to do for a reader: bytes not yet read from the underlying
\* reader, bytes buffered in the machine, output pending in the decompressor
ReadMeasure(m, pos) ==
    4 * (Len(payload) - pos) + 3 * Len(m.buffer.data) + Len(m.decompressor.pending)

\* a turn of the loop of read that does not end the run: it goes round again
\* or returns Ok(n) with n > 0.  It has taken at least one byte from the
\* underlying reader or from the buffer, or handed out pending output, and
\* what is left to do has shrunk
ReadTurnProgresses ==
    (epc = "loop" /\ io.fsm) =>
        /\ epc' = "loop" =>
               \/ io'.pos > io.pos
               \/ Len(e'.buffer.data) < Len(e.buffer.data) + (io'.pos - io.pos)
        /\ (epc' = "loop" \/ (io'.ret.kind = "Ok" /\ io'.ret.n > 0)) =>
               /\ ReadMeasure(e', io'.pos) < ReadMeasure(e, io.pos)
               /\ ReadMeasure(e', io'.pos) >= 0

\* C34: every call of read terminates.  Each turn of its loop returns or has
\* taken at least one byte from the underlying reader or from the machine's
\* buffer, so the loop cannot spin on a finite reader, and repeated read
\* calls end with a call that returns Ok(0) or an error.
C34_ReadTerminates ==
    /\ [][ReadTurnProgresses]_vars
    /\ [](epc = "panicked" => io.ret.error = "unreachable")

\* C39: for any sequence of read calls the reader holds its EntryFsm (fsm is
\* Some) at the start of every call, so the unreachable!() arm is never
\* executed, also in calls made after a call that returned Ok(0) and after a
\* call that returned an error.
C39_FsmHeldAtEveryCall ==
    /\ epc = "loop" => io.fsm
    /\ epc = "panicked" => io.ret.error # "unreachable"

----------------------------------------------------------------------------
(* Termination of the archive machine under the documented driver loop *)

\* process() has returned Continue, the offset the machine asks for lies at
\* or beyond the end of the file, so the driver has no byte to fill, and a
\* turn with nothing filled gives back the same machine: every later
\* process() call returns Continue again
StarvedAtEof ==
    /\ apc = "fill"
    /\ a.result = "Continue"
    /\ WantsRead(a) >= Len(file)
    /\ LET m == ArchiveFill(a, <<>>) IN ArchiveProcess(m) = m

\* C35: driven by a loop that fills at least one byte whenever wants_read()
\* names an offset inside the file and then calls process(), the archive
\* machine returns Done or an error after finitely many process() calls; it
\* never returns Continue forever while asking for reads at or beyond the
\* end of the file.
C35_NeverContinuesForeverAtEof == ~StarvedAtEof

----------------------------------------------------------------------------
(* The no-progress error of ReadData *)

\* the last decompress call of the run was fed nothing, read nothing and
\* wrote nothing
IdleCall ==
    /\ e.call.called
    /\ e.call.err = ""
    /\ e.call.in_len = 0
    /\ e.call.bytes_read = 0
    /\ e.call.bytes_written = 0

\* C36: the UnexpectedEof error `decompressor made no progress` is
\* unreachable.  The decompressors never report more bytes read than the
\* slice they were handed, so compressed_bytes never exceeds
\* entry.compressed_size; a ReadData turn with 0 bytes fed, 0 read and 0
\* written then only happens when compressed_bytes already equals
\* entry.compressed_size, and the machine leaves ReadData on that turn.
C36_NoProgressErrorUnreachable ==
    epc # "idle" =>
        /\ e.result # "UnexpectedEof"
        /\ e.call.called => e.call.bytes_read <= e.call.in_len
        /\ e.entry.some => e.compressed_bytes <= e.entry.v.compressed_size
        /\ IdleCall =>
               /\ e.entry.some
               /\ e.state # "ReadData"
               /\ e.compressed_bytes = e.entry.v.compressed_size

\* an idle turn of a streaming decompressor that ended ReadData of an entry
\* with a data descriptor
C36_Witness ==
    /\ epc # "idle"
    /\ IdleCall
    /\ e.decompressor.kind = "Stream"
    /\ e.has_data_descriptor
    /\ e.state # "ReadData"
    /\ e.result \in {"Continue", "Done"}
    /\ e.compressed_bytes = e.entry.v.compressed_size
    /\ e.compressed_bytes > 0

----------------------------------------------------------------------------
(* Panics of the entry machine *)

\* C37: AexDec::decompress never panics on slice bounds, for every mode in
\* {1, 2, 3}, every input and output length and either value of
\* has_more_input; in particular, when has_more_input is No and the
\* authentication code is split off, at least 10 bytes remain to split from.
C37_AexDecNeverPanics ==
    (epc # "idle" /\ e.call.called /\ e.decompressor.kind = "Aex") =>
        e.call.err # "Panic"

\* C38: parsing a local file header never panics when the decompressor is
\* created: for the AE-x method with an entry that has no AE-x extra field,
\* or with no entry, process() returns an error.
C38_HeaderParseNeverPanics ==
    (epc # "idle" /\ e.state = "ReadLocalHeader") => e.result # "Panic"

----------------------------------------------------------------------------
(* Layout of the ranges of one entry *)

\* C40: the ranges recorded by one run of the entry machine are contiguous:
\* `local file header` starts at entry.header_offset and covers the bytes the
\* header parse consumed; `file data` starts where the local header range
\* ends and has length compressed_size; `data descriptor`, when present,
\* starts where the file data range ends and has the length the descriptor
\* parse consumed.  Each is recorded at most once, in that order.
C40_EntryRangesContiguous ==
    epc # "idle" =>
        LET lh == RangesOf(e.parsed_ranges, "local file header")
            fd == RangesOf(e.parsed_ranges, "file data")
            dd == RangesOf(e.parsed_ranges, "data descriptor")
        IN /\ Len(lh) <= 1 /\ Len(fd) <= 1 /\ Len(dd) <= 1
           /\ e.parsed_ranges = lh \o fd \o dd
           /\ lh # <<>> =>
                  /\ lh[1].start = e.entry.v.header_offset
                  /\ lh[1].end = lh[1].start + Len(LocalHeaderBytes(fp))
           /\ fd # <<>> =>
                  /\ lh # <<>>
                  /\ fd[1].start = lh[1].end
                  /\ fd[1].end = fd[1].start + e.entry.v.compressed_size
           /\ dd # <<>> =>
                  /\ fd # <<>>
                  /\ dd[1].start = fd[1].end
                  /\ dd[1].end = dd[1].start + Len(DescriptorBytes(fp))

\* a run that recorded the three ranges of an entry with a payload, at a
\* header offset other than 0
C40_Witness ==
    /\ epc # "idle"
    /\ e.result = "Done"
    /\ Len(e.parsed_ranges) = 3
    /\ e.parsed_ranges[3].contains = "data descriptor"
    /\ e.entry.v.header_offset > 0
    /\ e.entry.v.compressed_size > 0

====
